---- MODULE Spec2Model ----
(***************************************************************************)
(* The delivery-metric pipeline of aiPitchEvaluator                        *)
(* (src/src/utils/audioStorage.ts, lines 148-583): the sample decoder, the *)
(* two energy-window segment detectors, the five primary scores, the two   *)
(* derived scores and analyzeAudioProperties with its catch blocks.        *)
(* After it: the backend's request handler with the transcription          *)
(* fallbacks and the content analysis (src/backend/server.js,              *)
(* src/unnamed/part_000), and the browser's AudioStorage                   *)
(* (audioStorage.ts, lines 10-117).                                        *)
(*                                                                         *)
(* Numbers.  TLA+ has integers only, so every float of the code is held as *)
(* an exact integer or fraction:                                           *)
(*   - a sample is held as v = 32768 * sample, the signed 16-bit integer   *)
(*     the decoder read (sample = v / Int16Scale; a Float32Array holds     *)
(*     v / 32768 exactly);                                                 *)
(*   - a time in seconds is held as the sample index it was computed from  *)
(*     (seconds = index / sampleRate);                                     *)
(*   - a window energy is held as the mixed number whole + num / den =     *)
(*     (sum of v^2) / (window length), that is 2^30 * energy;              *)
(*   - a score is held times ten (3.8 is 38).                              *)
(* A thrown exception is a record [threw |-> TRUE, value |-> its name]; a  *)
(* normal return is [threw |-> FALSE, value |-> the value].                *)
(***************************************************************************)
EXTENDS Bags, FiniteSets, Integers, Sequences, TLC

VARIABLES
    pc,            \* position of the call being modelled
    audioBuffer,   \* the argument of analyzeAudioProperties / extractSamplesFromBuffer
    result,        \* what the call returned, or how it ended
    caught,        \* the functions whose catch block ran during the call
    samples,       \* the samples handed to a segment detector
    detector,      \* which detector runs, with its sampleRate, threshold, minDuration
    i,             \* loop index of the detector
    inSpeech,      \* detectSpeechSegments: inSpeech
    segmentStart,  \* detectSpeechSegments: segmentStart (sample index)
    inSilence,     \* detectSilentSegments: inSilence
    silenceStart,  \* detectSilentSegments: silenceStart (sample index)
    segments,      \* the detector's segments array
    inputData,     \* the audioData argument of a score function; in
                   \* analyzeAudioProperties the settled promise of
                   \* processAudioBuffer
    inputMetrics,  \* the audioMetrics argument of the derived scores; in
                   \* analyzeAudioProperties the pace it has awaited
    pitchValues,   \* calculateRealTonalVariation: pitchValues (sampleRate / lag)
    windows,       \* the windows handed to estimatePitch so far: [start, end)
    callee,        \* the function a call applies
    server,        \* the backend: the requests in flight, the temp files,
                   \* the clock and process.env
    store          \* AudioStorage: the object store and the calls in flight

vars == <<pc, audioBuffer, result, caught, samples, detector, i, inSpeech,
          segmentStart, inSilence, silenceStart, segments, inputData,
          inputMetrics, pitchValues, windows, callee, server, store>>

detectorVars == <<samples, detector, i, inSpeech, segmentStart, inSilence,
                  silenceStart, segments>>

scoreVars == <<inputData, inputMetrics, pitchValues, windows, callee>>

serverVars == <<server, store>>

(***************************************************************************)
(* Bounds of the model and the input alphabets.                            *)
(***************************************************************************)
MaxDecodeBytes == 4
MaxBytes == 4
MaxSamples == 6
MaxRuns == 3
MaxPaceSamples == 56
MaxVolumeSamples == 3
MaxClaritySamples == 4
MaxWindows == 2

\* Bytes of the decoder's inputs: both ends of each byte's range and the
\* sign bit, so that -32768 (00 80), 32767 (FF 7F) and -1 (FF FF) are read.
DecodeBytes == {0, 1, 127, 128, 255}

\* Bytes of the pipeline's inputs: high bytes 00, 01, 0D, 30, 7F put a
\* sample in each of the five loudness buckets, FF gives negative samples.
PipelineBytes == {0, 1, 13, 48, 127, 255}

\* The samples 12834 and 22680, whose mean square 339546978 lies just below
\* the -5 dB limit of calculateRealVolume, and 1151 and 26034, whose mean
\* square 339546978.5 lies just above it.
BoundaryBytes == {<<34, 50, 152, 88>>, <<127, 4, 178, 101>>}

BufferKinds == {"Buffer", "Uint8Array"}

None == "none"

(***************************************************************************)
(* Exceptions as values.                                                   *)
(***************************************************************************)
Return(v) == [threw |-> FALSE, value |-> v]

Throw(e) == [threw |-> TRUE, value |-> e]

(***************************************************************************)
(* Sample decoder.                                                         *)
(***************************************************************************)
Int16Scale == 32768

\* A mutant of readInt16LE: the unsigned read (readUInt16LE).
readUInt16LE(bytes, offset) ==
    bytes[offset + 1] + 256 * bytes[offset + 2]

\* A mutant of readInt16LE: the big-endian read (readInt16BE).
readInt16BE(bytes, offset) ==
    LET unsigned == 256 * bytes[offset + 1] + bytes[offset + 2]
    IN  IF unsigned >= 32768 THEN unsigned - 65536 ELSE unsigned

\* buffer.readInt16LE(offset): bytes offset and offset+1 (0-based) as a
\* little-endian two's-complement 16-bit integer.  The caller only reads
\* offsets with offset + 1 < buffer.length.
readInt16LE(bytes, offset) ==
    LET unsigned == bytes[offset + 1] + 256 * bytes[offset + 2]
    IN  IF unsigned >= 32768 THEN unsigned - 65536 ELSE unsigned

\* extractSamplesFromBuffer(buffer).  new Float32Array(buffer.length / 2)
\* truncates a fractional length (ToIndex), so an odd trailing byte is
\* ignored and an empty buffer gives no samples; neither throws.  The loop
\* calls buffer.readInt16LE, which only a Node Buffer has: on any other
\* byte array the first iteration throws a TypeError.
extractSamplesFromBuffer(buffer) ==
    LET length == Len(buffer.bytes) \div 2
    IN  IF length > 0 /\ buffer.kind # "Buffer"
        THEN Throw("TypeError")
        ELSE Return([k \in 1..length |-> readInt16LE(buffer.bytes, 2 * (k - 1))])

(***************************************************************************)
(* Fractions.  A fraction is [num |-> n, den |-> d] with n >= 0, or the    *)
(* mixed number [whole |-> w, num |-> n, den |-> d] = w + n / d with       *)
(* 0 <= n < d; d = 0 is the NaN of 0/0, for which every comparison is      *)
(* false.  FracLess compares exactly by the continued-fraction expansion,  *)
(* without cross products (a product of a sum of squares and a scaled      *)
(* threshold passes 2^31).                                                 *)
(***************************************************************************)
RECURSIVE RatLess(_, _, _, _)
RatLess(a, b, c, d) ==
    LET qa == a \div b
        qc == c \div d
        ra == a % b
        rc == c % d
    IN  IF qa # qc THEN qa < qc
        ELSE IF rc = 0 THEN FALSE
        ELSE IF ra = 0 THEN TRUE
        ELSE RatLess(d, rc, b, ra)

(***************************************************************************)
(* Sums of products of samples.  A product of two samples (times 2^30) is  *)
(* at most 2^30 and a double adds such products exactly (a sum of 2^21 of  *)
(* them is below 2^53), so a sum is held exactly as                        *)
(* [hi |-> h, lo |-> l] = h * 2^20 + l with 0 <= l < 2^20.                 *)
(***************************************************************************)
WideOf(product) == [hi |-> product \div 1048576, lo |-> product % 1048576]

WideAdd(x, y) ==
    [hi |-> x.hi + y.hi + ((x.lo + y.lo) \div 1048576),
     lo |-> (x.lo + y.lo) % 1048576]

\* sum / count as [whole |-> floor(sum / count), num |-> r, den |-> count]
\* = whole + r / count with 0 <= r < count, by long division in steps of
\* ten bits; count = 0 gives the NaN of 0 / 0, den = 0.
WideMean(sum, count) ==
    IF count = 0 THEN [whole |-> 0, num |-> 0, den |-> 0]
    ELSE LET q1 == sum.hi \div count
             t1 == (sum.hi % count) * 1024 + (sum.lo \div 1024)
             q2 == t1 \div count
             t0 == (t1 % count) * 1024 + (sum.lo % 1024)
         IN  [whole |-> (q1 * 1024 + q2) * 1024 + (t0 \div count),
              num |-> t0 % count, den |-> count]

\* x < y for x = whole + num / den and y likewise; a comparison with NaN is
\* false.
MixedLess(x, y) ==
    /\ x.den > 0
    /\ y.den > 0
    /\ \/ x.whole < y.whole
       \/ x.whole = y.whole /\ RatLess(x.num, x.den, y.num, y.den)

\* A fraction as whole + num / den with 0 <= num < den.
Mixed(x) ==
    IF "whole" \in DOMAIN x THEN x
    ELSE IF x.den > 0
         THEN [whole |-> x.num \div x.den, num |-> x.num % x.den, den |-> x.den]
         ELSE [whole |-> 0, num |-> 0, den |-> 0]

FracLess(x, y) == MixedLess(Mixed(x), Mixed(y))

FracGreater(x, y) == FracLess(y, x)

FracLessEq(x, y) == x.den > 0 /\ y.den > 0 /\ ~MixedLess(Mixed(y), Mixed(x))

FracGreaterEq(x, y) == FracLessEq(y, x)

FracEqual(x, y) == FracLessEq(x, y) /\ FracLessEq(y, x)

\* How a computed double can compare with a limit its exact value equals:
\* below the limit's double, equal to it or above it.
Roundings == {-1, 0, 1}

\* computed < limit, for a double computed by a subtraction of two rounded
\* quotients and a division: it differs from its exact value x by a few
\* units in the last place, which decides the comparison only when x equals
\* the limit exactly.
FloatLess(x, limit, rounding) ==
    FracLess(x, limit) \/ (FracEqual(x, limit) /\ rounding < 0)

Min(a, b) == IF a < b THEN a ELSE b

Max(a, b) == IF a > b THEN a ELSE b

Abs(a) == IF a < 0 THEN -a ELSE a

RECURSIVE Gcd(_, _)
Gcd(a, b) == IF b = 0 THEN a ELSE Gcd(b, a % b)

RECURSIVE IsPowerOfTwo(_)
IsPowerOfTwo(n) == n = 1 \/ (n > 1 /\ n % 2 = 0 /\ IsPowerOfTwo(n \div 2))

(***************************************************************************)
(* Window energy.                                                          *)
(***************************************************************************)
\* The sum of window[j]^2 for j >= k, the two halves of the range added,
\* for values whose squares sum to less than 2^31.
RECURSIVE SumSquares(_, _)
SumSquares(window, k) ==
    IF k > Len(window) THEN 0
    ELSE IF k = Len(window) THEN window[k] * window[k]
    ELSE LET mid == (k + Len(window)) \div 2
         IN  SumSquares(SubSeq(window, 1, mid), k) + SumSquares(window, mid + 1)

\* The sum of smp[j]^2 over the indices lo..hi (counted from 1), the two
\* halves added: the loops of calculateWindowEnergy and calculateRealVolume.
RECURSIVE SumSquaresWide(_, _, _)
SumSquaresWide(smp, lo, hi) ==
    IF lo > hi THEN WideOf(0)
    ELSE IF lo = hi THEN WideOf(smp[lo] * smp[lo])
    ELSE LET mid == (lo + hi) \div 2
         IN  WideAdd(SumSquaresWide(smp, lo, mid), SumSquaresWide(smp, mid + 1, hi))

\* calculateWindowEnergy(window): the mean of the squared samples, held as
\* the mixed number (sum of v^2) / length = 2^30 * energy.
calculateWindowEnergy(window) ==
    WideMean(SumSquaresWide(window, 1, Len(window)), Len(window))

\* samples.slice(from, to) with 0-based from and exclusive to.
Slice(smp, from, to) == SubSeq(smp, from + 1, Min(to, Len(smp)))

\* energyThreshold = 0.001, in the unit of calculateWindowEnergy:
\* 0.001 * 2^30 = 134217728 / 125.
SpeechEnergyThreshold == [num |-> 134217728, den |-> 125]

\* silenceThreshold = 0.01 (calculateRealPauses), in the same unit:
\* 0.01 * 2^30 = 268435456 / 25.
SilenceThreshold == [num |-> 268435456, den |-> 25]

\* minPauseDuration = 0.2 seconds (calculateRealPauses).
MinPauseDuration == [num |-> 1, den |-> 5]

(***************************************************************************)
(* detectSpeechSegments: the loop state is [i, inSpeech, segmentStart,     *)
(* segments]; one iteration handles the window that starts at sample i.    *)
(***************************************************************************)
SpeechWindowSize(sampleRate) == (sampleRate * 2) \div 100

SpeechLoopStart ==
    [i |-> 0, inSpeech |-> FALSE, segmentStart |-> 0, segments |-> <<>>]

\* A mutant of detectSpeechIteration: segmentStart is not recorded when a
\* segment opens.
detectSpeechIterationStaleStart(st, smp, sampleRate) ==
    LET windowSize == SpeechWindowSize(sampleRate)
        window == Slice(smp, st.i, st.i + windowSize)
        energy == calculateWindowEnergy(window)
        next == [st EXCEPT !.i = st.i + windowSize]
    IN  IF FracGreater(energy, SpeechEnergyThreshold) /\ ~st.inSpeech
        THEN [next EXCEPT !.inSpeech = TRUE]
        ELSE IF FracLessEq(energy, SpeechEnergyThreshold) /\ st.inSpeech
        THEN [next EXCEPT !.inSpeech = FALSE,
                          !.segments = Append(st.segments,
                              [start |-> st.segmentStart, end |-> st.i])]
        ELSE next

\* A mutant of detectSpeechIteration: a segment ends at the end of the quiet
\* window that closes it, not at its start.
detectSpeechIterationEndAfter(st, smp, sampleRate) ==
    LET windowSize == SpeechWindowSize(sampleRate)
        window == Slice(smp, st.i, st.i + windowSize)
        energy == calculateWindowEnergy(window)
        next == [st EXCEPT !.i = st.i + windowSize]
    IN  IF FracGreater(energy, SpeechEnergyThreshold) /\ ~st.inSpeech
        THEN [next EXCEPT !.inSpeech = TRUE, !.segmentStart = st.i]
        ELSE IF FracLessEq(energy, SpeechEnergyThreshold) /\ st.inSpeech
        THEN [next EXCEPT !.inSpeech = FALSE,
                          !.segments = Append(st.segments,
                              [start |-> st.segmentStart,
                               end |-> st.i + windowSize])]
        ELSE next

detectSpeechIteration(st, smp, sampleRate) ==
    LET windowSize == SpeechWindowSize(sampleRate)
        window == Slice(smp, st.i, st.i + windowSize)
        energy == calculateWindowEnergy(window)
        next == [st EXCEPT !.i = st.i + windowSize]
    IN  IF FracGreater(energy, SpeechEnergyThreshold) /\ ~st.inSpeech
        THEN [next EXCEPT !.inSpeech = TRUE, !.segmentStart = st.i]
        ELSE IF FracLessEq(energy, SpeechEnergyThreshold) /\ st.inSpeech
        THEN [next EXCEPT !.inSpeech = FALSE,
                          !.segments = Append(st.segments,
                              [start |-> st.segmentStart, end |-> st.i])]
        ELSE next

\* A mutant of SpeechLoopExit: a segment still open when the buffer ends is
\* closed at the end of the buffer.
SpeechLoopExitClosing(st, smp) ==
    IF st.inSpeech
    THEN Append(st.segments, [start |-> st.segmentStart, end |-> Len(smp)])
    ELSE st.segments

\* The loop's exit: return segments.
SpeechLoopExit(st, smp) == st.segments

\* The number of iterations of for (i = from; i < length; i += step).
LoopCount(from, length, step) ==
    IF from >= length THEN 0 ELSE (length - from + step - 1) \div step

\* n iterations of the loop from state st, the first half before the
\* second.
RECURSIVE SpeechIterations(_, _, _, _)
SpeechIterations(st, n, smp, sampleRate) ==
    IF n = 0 THEN st
    ELSE IF n = 1 THEN detectSpeechIteration(st, smp, sampleRate)
    ELSE LET half == SpeechIterations(st, n \div 2, smp, sampleRate)
         IN  IF half.i < Len(smp)
             THEN SpeechIterations(half, n - n \div 2, smp, sampleRate)
             ELSE half

SpeechLoop(st, smp, sampleRate) ==
    SpeechLoopExit(
        SpeechIterations(st, LoopCount(st.i, Len(smp), SpeechWindowSize(sampleRate)),
                         smp, sampleRate),
        smp)

detectSpeechSegments(smp, sampleRate) ==
    SpeechLoop(SpeechLoopStart, smp, sampleRate)

(***************************************************************************)
(* detectSilentSegments: the loop state is [i, inSilence, silenceStart,    *)
(* segments].  duration = i / sampleRate - silenceStart is a difference of *)
(* two rounded doubles: where the exact duration differs from minDuration  *)
(* the exact comparison decides; where it equals minDuration the rounding  *)
(* of the subtraction decides (at 44100 Hz and 0.2 s a run of exactly 20   *)
(* windows is kept or dropped depending on where it starts), and roundsUp  *)
(* says which way it went.                                                 *)
(***************************************************************************)
SilenceWindowSize(sampleRate) == sampleRate \div 100

SilenceLoopStart ==
    [i |-> 0, inSilence |-> FALSE, silenceStart |-> 0, segments |-> <<>>]

\* duration >= minDuration for the run [from, to) of sample indices.
DurationReaches(from, to, sampleRate, minDuration, roundsUp) ==
    LET lhs == (to - from) * minDuration.den
        rhs == minDuration.num * sampleRate
    IN  lhs > rhs \/ (lhs = rhs /\ roundsUp)

\* A mutant of detectSilentIteration: inSilence is reset only when the run
\* is long enough to be appended.
detectSilentIterationResetInsideIf(st, smp, sampleRate, threshold, minDuration, roundsUp) ==
    LET windowSize == SilenceWindowSize(sampleRate)
        window == Slice(smp, st.i, st.i + windowSize)
        energy == calculateWindowEnergy(window)
        next == [st EXCEPT !.i = st.i + windowSize]
    IN  IF FracLess(energy, threshold) /\ ~st.inSilence
        THEN [next EXCEPT !.inSilence = TRUE, !.silenceStart = st.i]
        ELSE IF FracGreaterEq(energy, threshold) /\ st.inSilence
        THEN IF DurationReaches(st.silenceStart, st.i, sampleRate, minDuration, roundsUp)
             THEN [next EXCEPT !.inSilence = FALSE,
                               !.segments = Append(st.segments,
                                   [start |-> st.silenceStart, end |-> st.i])]
             ELSE next
        ELSE next

\* A mutant of detectSilentIteration: the comparisons of the speech detector
\* (open above the threshold, close at or below it).
detectSilentIterationAsSpeech(st, smp, sampleRate, threshold, minDuration, roundsUp) ==
    LET windowSize == SilenceWindowSize(sampleRate)
        window == Slice(smp, st.i, st.i + windowSize)
        energy == calculateWindowEnergy(window)
        next == [st EXCEPT !.i = st.i + windowSize]
    IN  IF FracGreater(energy, threshold) /\ ~st.inSilence
        THEN [next EXCEPT !.inSilence = TRUE, !.silenceStart = st.i]
        ELSE IF FracLessEq(energy, threshold) /\ st.inSilence
        THEN IF DurationReaches(st.silenceStart, st.i, sampleRate, minDuration, roundsUp)
             THEN [next EXCEPT !.inSilence = FALSE,
                               !.segments = Append(st.segments,
                                   [start |-> st.silenceStart, end |-> st.i])]
             ELSE [next EXCEPT !.inSilence = FALSE]
        ELSE next

detectSilentIteration(st, smp, sampleRate, threshold, minDuration, roundsUp) ==
    LET windowSize == SilenceWindowSize(sampleRate)
        window == Slice(smp, st.i, st.i + windowSize)
        energy == calculateWindowEnergy(window)
        next == [st EXCEPT !.i = st.i + windowSize]
    IN  IF FracLess(energy, threshold) /\ ~st.inSilence
        THEN [next EXCEPT !.inSilence = TRUE, !.silenceStart = st.i]
        ELSE IF FracGreaterEq(energy, threshold) /\ st.inSilence
        THEN IF DurationReaches(st.silenceStart, st.i, sampleRate, minDuration, roundsUp)
             THEN [next EXCEPT !.inSilence = FALSE,
                               !.segments = Append(st.segments,
                                   [start |-> st.silenceStart, end |-> st.i])]
             ELSE [next EXCEPT !.inSilence = FALSE]
        ELSE next

\* The loop's exit: return segments.
SilenceLoopExit(st, smp) == st.segments

\* n iterations of the loop from state st, the first half before the
\* second.  ties: the closing indices at which the subtraction rounded up.
RECURSIVE SilenceIterations(_, _, _, _, _, _, _)
SilenceIterations(st, n, smp, sampleRate, threshold, minDuration, ties) ==
    IF n = 0 THEN st
    ELSE IF n = 1
    THEN detectSilentIteration(st, smp, sampleRate, threshold, minDuration,
                               st.i \in ties)
    ELSE LET half == SilenceIterations(st, n \div 2, smp, sampleRate,
                                       threshold, minDuration, ties)
         IN  IF half.i < Len(smp)
             THEN SilenceIterations(half, n - n \div 2, smp, sampleRate,
                                    threshold, minDuration, ties)
             ELSE half

SilenceLoop(st, smp, sampleRate, threshold, minDuration, ties) ==
    SilenceLoopExit(
        SilenceIterations(st, LoopCount(st.i, Len(smp), SilenceWindowSize(sampleRate)),
                          smp, sampleRate, threshold, minDuration, ties),
        smp)

detectSilentSegments(smp, sampleRate, threshold, minDuration, ties) ==
    SilenceLoop(SilenceLoopStart, smp, sampleRate, threshold, minDuration, ties)

(***************************************************************************)
(* processAudioBuffer and the five primary scores.  A score function       *)
(* returns [threw, value, caught]: caught says that its own catch block    *)
(* ran and value is then its fallback score.                               *)
(***************************************************************************)
SampleRate == 44100

Score(v) == [threw |-> FALSE, value |-> v, caught |-> FALSE]

Fallback(v) == [threw |-> FALSE, value |-> v, caught |-> TRUE]

\* try { body } catch { return fallback }
TryCatch(body, fallback) ==
    IF body.threw THEN Fallback(fallback) ELSE Score(body.value)

\* processAudioBuffer(audioBuffer): its catch block rethrows.  duration is
\* audioBuffer.length / (44100 * 2), a fraction of a second.
processAudioBuffer(buffer) ==
    LET extracted == extractSamplesFromBuffer(buffer)
    IN  IF extracted.threw THEN extracted
        ELSE Return([buffer |-> buffer,
                     sampleRate |-> SampleRate,
                     channels |-> 1,
                     duration |-> [num |-> Len(buffer.bytes), den |-> SampleRate * 2],
                     samples |-> extracted.value])

RECURSIVE TotalLength(_, _)
TotalLength(segs, k) ==
    IF k > Len(segs) THEN 0
    ELSE (segs[k].end - segs[k].start) + TotalLength(segs, k + 1)

\* A mutant of PaceBucket: the scores of the two upper buckets exchanged.
PaceBucketSwapped(speechRate, rounding) ==
    IF FloatLess(speechRate, [num |-> 3, den |-> 2], rounding) THEN 20
    ELSE IF FloatLess(speechRate, [num |-> 5, den |-> 2], rounding) THEN 30
    ELSE IF FloatLess(speechRate, [num |-> 4, den |-> 1], rounding) THEN 40
    ELSE IF FloatLess(speechRate, [num |-> 5, den |-> 1], rounding) THEN 50
    ELSE 30

\* The bucket table of calculateRealPace; speechRate is a fraction (1/s).
PaceBucket(speechRate, rounding) ==
    IF FloatLess(speechRate, [num |-> 3, den |-> 2], rounding) THEN 20
    ELSE IF FloatLess(speechRate, [num |-> 5, den |-> 2], rounding) THEN 30
    ELSE IF FloatLess(speechRate, [num |-> 4, den |-> 1], rounding) THEN 50
    ELSE IF FloatLess(speechRate, [num |-> 5, den |-> 1], rounding) THEN 40
    ELSE 30

\* calculateRealPace(audioData).  totalSpeechTime is (sum of index
\* differences) / sampleRate, so speechRate = count * sampleRate / sum;
\* rounding is how the computed speechRate compares with a limit it equals.
\* Nothing in the try block throws on a sample array.
calculateRealPace(audioData, rounding) ==
    LET speechSegments == detectSpeechSegments(audioData.samples, audioData.sampleRate)
        total == TotalLength(speechSegments, 1)
        speechRate == IF total > 0
                      THEN [num |-> Len(speechSegments) * audioData.sampleRate,
                            den |-> total]
                      ELSE [num |-> 0, den |-> 1]
    IN  TryCatch(Return(PaceBucket(speechRate, rounding)), 35)

\* The dB limits of calculateRealVolume as limits on the mean square of the
\* samples times 2^30: 20 * log10(rms + 1e-10) < L  iff
\* mean(v^2) < (32768 * (10^(L / 20) - 1e-10))^2, which is
\* 107374.18025251636... for -40, 3395469.77074745977... for -25,
\* 107374182.33209060435... for -10 and 339546978.16160289707... for -5.
\* The fraction of a limit is the continued-fraction convergent above the
\* limit's own fraction: no fraction with a denominator below 2^30 lies
\* between the two, so a mean of fewer than 2^30 samples is below the
\* limit exactly when it is below the convergent.
VolumeLimit(dB) ==
    IF dB = -40 THEN [whole |-> 107374, num |-> 155254431, den |-> 861316303]
    ELSE IF dB = -25 THEN [whole |-> 3395469, num |-> 1017668342, den |-> 1320365483]
    ELSE IF dB = -10 THEN [whole |-> 107374182, num |-> 244026878, den |-> 734820181]
    ELSE [whole |-> 339546978, num |-> 45939538, den |-> 284274223]

\* The band around each limit, whole + low / 10^9 to whole + high / 10^9,
\* outside which the doubles of calculateRealVolume decide as exact
\* arithmetic does.  dbLevel is computed by a division, Math.sqrt, an
\* addition, Math.log10 and a multiplication, each rounded to 53 bits, and
\* dbLevel < L compares the rounded value: the mean square the comparison
\* effectively sees differs from the exact one by a relative error below
\* 2^-49 at -5 dB, 2^-48 at -10 dB, 2^-47 at -25 dB and 2^-46 at -40 dB
\* (the error of log10 weighs more the nearer rms + 1e-10 is to 1).  A mean
\* square of 2067501550026 / 6089 = 339546978.16160289 lies 6.6e-9 below
\* the -5 dB limit and dbLevel is -5 exactly, which is not below -5.
VolumeBand(dB) ==
    IF dB = -40 THEN [whole |-> 107374, low |-> 180252514, high |-> 180252518]
    ELSE IF dB = -25 THEN [whole |-> 3395469, low |-> 770747435, high |-> 770747484]
    ELSE IF dB = -10 THEN [whole |-> 107374182, low |-> 332090222, high |-> 332090986]
    ELSE [whole |-> 339546978, low |-> 161602293, high |-> 161603501]

\* The mean square lies strictly inside the band of a limit.
VolumeNear(meanSquare, dB) ==
    LET band == VolumeBand(dB)
    IN  /\ MixedLess([whole |-> band.whole, num |-> band.low, den |-> 1000000000],
                     meanSquare)
        /\ MixedLess(meanSquare,
                     [whole |-> band.whole, num |-> band.high, den |-> 1000000000])

\* dbLevel < dB as the doubles decide it: inside the band of the limit the
\* rounding of dbLevel decides (below 0: rounded down, above 0: rounded
\* up, 0: as the exact value), outside it the exact mean square does.
VolumeLess(meanSquare, dB, rounding) ==
    IF VolumeNear(meanSquare, dB) /\ rounding # 0 THEN rounding < 0
    ELSE MixedLess(meanSquare, VolumeLimit(dB))

\* A mutant of VolumeBucket: the first limit sits at -46 dB instead of
\* -40 dB.
VolumeBucketQuieter(meanSquare, rounding) ==
    IF MixedLess(meanSquare, [whole |-> 26843, num |-> 545, den |-> 1000]) THEN 20
    ELSE IF VolumeLess(meanSquare, -25, rounding) THEN 30
    ELSE IF VolumeLess(meanSquare, -10, rounding) THEN 50
    ELSE IF VolumeLess(meanSquare, -5, rounding) THEN 40
    ELSE 30

\* The returns of calculateRealVolume for the mean square of the samples.
VolumeBucket(meanSquare, rounding) ==
    IF VolumeLess(meanSquare, -40, rounding) THEN 20
    ELSE IF VolumeLess(meanSquare, -25, rounding) THEN 30
    ELSE IF VolumeLess(meanSquare, -10, rounding) THEN 50
    ELSE IF VolumeLess(meanSquare, -5, rounding) THEN 40
    ELSE 30

\* calculateRealVolume(audioData).  With no samples rms is the NaN of 0 / 0,
\* every comparison is false and the last return gives 3.
calculateRealVolume(audioData, rounding) ==
    LET meanSquare == WideMean(SumSquaresWide(audioData.samples, 1,
                                              Len(audioData.samples)),
                               Len(audioData.samples))
    IN  TryCatch(Return(VolumeBucket(meanSquare, rounding)), 40)

\* The sum of seq[j] for j >= k, the two halves of the range added.
RECURSIVE Sum(_, _)
Sum(seq, k) ==
    IF k > Len(seq) THEN 0
    ELSE IF k = Len(seq) THEN seq[k]
    ELSE LET mid == (k + Len(seq)) \div 2
         IN  Sum(SubSeq(seq, 1, mid), k) + Sum(seq, mid + 1)

\* Bin k of the transform of the first N samples, times 32768.  Bin 0 has
\* every twiddle factor equal to 1 and is |sum of the samples|.  For N = 4
\* bin 1 has the twiddle factors 1, -i, -1, i and is the length of
\* (real[0] - real[2], real[3] - real[1]), an integer when one of the two
\* differences is 0.  The other bins have irrational values and are left
\* undefined rather than approximated.
Magnitude(real, k) ==
    CASE k = 0 -> Abs(Sum(real, 1))
      [] k = 1 /\ Len(real) = 4 /\ real[2] = real[4] -> Abs(real[1] - real[3])
      [] k = 1 /\ Len(real) = 4 /\ real[1] = real[3] -> Abs(real[4] - real[2])

\* performFFT(samples): N = min(1024, samples.length); new Array(N / 2)
\* throws a RangeError when N is odd (N / 2 is not an integer).  The
\* magnitude array is held as a sequence: bin k is element k + 1.
performFFT(smp) ==
    LET N == Min(1024, Len(smp))
        real == SubSeq(smp, 1, N)
    IN  IF N % 2 # 0 THEN Throw("RangeError")
        ELSE Return([magnitude |-> [k \in 1..(N \div 2) |-> Magnitude(real, k - 1)]])

\* The loop of getFrequencyRange: the state is [i, energy, nan, reads].
\* reads collects the indices the loop has read from spectrum; nan is set
\* when a read fell outside the spectrum (spectrum[i] is then undefined and
\* energy += undefined makes energy NaN for good).
FrequencyLoopStart(binMin) ==
    [i |-> binMin, energy |-> 0, nan |-> FALSE, reads |-> {}]

\* A mutant of FrequencyLoopRuns: the loop does not stop at the spectrum's
\* end.
FrequencyLoopRunsToBinMax(st, spectrum, binMax) ==
    st.i <= binMax

\* The loop's condition: i <= binMax && i < spectrum.length.
FrequencyLoopRuns(st, spectrum, binMax) ==
    st.i <= binMax /\ st.i < Len(spectrum)

\* The loop's body: energy += spectrum[i].
getFrequencyIteration(st, spectrum) ==
    LET inside == st.i >= 0 /\ st.i < Len(spectrum)
    IN  [i |-> st.i + 1,
         energy |-> IF inside THEN st.energy + spectrum[st.i + 1] ELSE st.energy,
         nan |-> st.nan \/ ~inside,
         reads |-> st.reads \cup {st.i}]

RECURSIVE FrequencyLoop(_, _, _)
FrequencyLoop(st, spectrum, binMax) ==
    IF FrequencyLoopRuns(st, spectrum, binMax)
    THEN FrequencyLoop(getFrequencyIteration(st, spectrum), spectrum, binMax)
    ELSE st

\* binSize = sampleRate / (2 * spectrum.length) is a double: the quotient
\* is exact when its denominator in lowest terms is a power of two, and
\* rounded otherwise.
BinSizeExact(length, sampleRate) ==
    IsPowerOfTwo((2 * length) \div Gcd(sampleRate, 2 * length))

\* freq / binSize computed in doubles where its exact value is a whole
\* number q and binSize is rounded: the computed quotient is q or the
\* double just below q, whose floor is q - 1 (8000 / (32000 / 60) gives
\* 14.999999999999998).  A quotient that is not whole lies at least
\* 1 / sampleRate from a whole number, and its floor is exact.
BinTie(freq, length, sampleRate) ==
    /\ length > 0
    /\ freq > 0
    /\ (freq * 2 * length) % sampleRate = 0
    /\ ~BinSizeExact(length, sampleRate)

\* The frequencies among freqs whose quotient may fall below its whole
\* value.
BinTies(freqs, length, sampleRate) ==
    {freq \in freqs : BinTie(freq, length, sampleRate)}

\* The bin of a frequency: Math.floor(freq / binSize) with binSize =
\* sampleRate / (2 * spectrum.length).  binSize is Infinity for an empty
\* spectrum, which makes the bin 0, as the integer quotient is.  low is the
\* set of frequencies whose computed quotient falls below its whole value.
FrequencyBin(freq, length, sampleRate, low) ==
    IF freq \in low /\ BinTie(freq, length, sampleRate)
    THEN (freq * 2 * length) \div sampleRate - 1
    ELSE (freq * 2 * length) \div sampleRate

\* The loop's final state for getFrequencyRange(spectrum, freqMin, freqMax,
\* sampleRate).
FrequencyRangeLoop(spectrum, freqMin, freqMax, sampleRate, low) ==
    LET binMin == FrequencyBin(freqMin, Len(spectrum), sampleRate, low)
        binMax == FrequencyBin(freqMax, Len(spectrum), sampleRate, low)
    IN  FrequencyLoop(FrequencyLoopStart(binMin), spectrum, binMax)

\* getFrequencyRange(spectrum, freqMin, freqMax, sampleRate): return energy.
getFrequencyRange(spectrum, freqMin, freqMax, sampleRate, low) ==
    FrequencyRangeLoop(spectrum, freqMin, freqMax, sampleRate, low).energy

\* A mutant of ClarityBucket: the lowest bucket scores 0.
ClarityBucketFromZero(speech, total) ==
    IF 5 * speech > 4 * total THEN 50
    ELSE IF 5 * speech > 3 * total THEN 40
    ELSE IF 5 * speech > 2 * total THEN 30
    ELSE IF 5 * speech > total THEN 20
    ELSE 0

\* The bucket table of calculateRealClarity on
\* clarityRatio = speech / (total + 1e-10), total = noise + speech.  The
\* band sums are integers here (times 32768), and for integers
\* speech / (total + 1e-10) > c / 5  iff  5 * speech > c * total.
ClarityBucket(speech, total) ==
    IF 5 * speech > 4 * total THEN 50
    ELSE IF 5 * speech > 3 * total THEN 40
    ELSE IF 5 * speech > 2 * total THEN 30
    ELSE IF 5 * speech > total THEN 20
    ELSE 10

\* The body of calculateRealClarity.  The magnitudes of performFFT are
\* defined here for N <= 4, a spectrum of at most two bins: binSize is then
\* sampleRate / 2 or sampleRate / 4, which is exact, and no quotient falls
\* below its whole value.
ClarityBody(audioData) ==
    LET fftResult == performFFT(audioData.samples)
        frequencySpectrum == fftResult.value.magnitude
        speechFreqRange == getFrequencyRange(frequencySpectrum, 300, 3400,
                                             audioData.sampleRate, {})
        noiseFreqRange == getFrequencyRange(frequencySpectrum, 0, 300,
                                            audioData.sampleRate, {})
                          + getFrequencyRange(frequencySpectrum, 3400, 8000,
                                              audioData.sampleRate, {})
    IN  IF fftResult.threw THEN fftResult
        ELSE Return(ClarityBucket(speechFreqRange, noiseFreqRange + speechFreqRange))

\* calculateRealClarity(audioData): the catch block returns 3.8.
calculateRealClarity(audioData) == TryCatch(ClarityBody(audioData), 38)

\* A mutant of PauseBucket: the scores of the third and fourth buckets are
\* exchanged.
PauseBucketSwapped(silenceRatio, rounding) ==
    IF FloatLess(silenceRatio, [num |-> 1, den |-> 20], rounding) THEN 20
    ELSE IF FloatLess(silenceRatio, [num |-> 3, den |-> 20], rounding) THEN 50
    ELSE IF FloatLess(silenceRatio, [num |-> 1, den |-> 4], rounding) THEN 30
    ELSE IF FloatLess(silenceRatio, [num |-> 7, den |-> 20], rounding) THEN 40
    ELSE 20

\* The bucket table of calculateRealPauses; a NaN ratio (0 / 0) fails every
\* comparison and gets the last return.
PauseBucket(silenceRatio, rounding) ==
    IF FloatLess(silenceRatio, [num |-> 1, den |-> 20], rounding) THEN 20
    ELSE IF FloatLess(silenceRatio, [num |-> 3, den |-> 20], rounding) THEN 50
    ELSE IF FloatLess(silenceRatio, [num |-> 1, den |-> 4], rounding) THEN 40
    ELSE IF FloatLess(silenceRatio, [num |-> 7, den |-> 20], rounding) THEN 30
    ELSE 20

\* calculateRealPauses(audioData).  silenceRatio = totalSilenceTime /
\* duration = (sum / sampleRate) / duration; rounding is how the computed
\* silenceRatio compares with a limit it equals.
calculateRealPauses(audioData, ties, rounding) ==
    LET silentSegments == detectSilentSegments(audioData.samples, audioData.sampleRate,
                              SilenceThreshold, MinPauseDuration, ties)
        total == TotalLength(silentSegments, 1)
        silenceRatio == [num |-> total * audioData.duration.den,
                         den |-> audioData.duration.num * audioData.sampleRate]
    IN  TryCatch(Return(PauseBucket(silenceRatio, rounding)), 35)

(***************************************************************************)
(* Pitch: estimatePitch and calculateRealTonalVariation.                   *)
(***************************************************************************)
\* The inner loop of estimatePitch: the sum of window[i] * window[i + period]
\* over the indices lo..hi (counted from 1).  A product p is added in two
\* parts, p \div 2^15 and p % 2^15, whose sums over a window stay below 2^31
\* where the sum of the products does not.  A function with values >= 1 is
\* a bag and the sum of its values is the bag's cardinality: the parts are
\* summed with 32769 and 1 added to each, which the last line takes out.
CorrelationHigh(window, period, lo, hi) ==
    BagCardinality([k \in lo..hi |->
                       ((window[k] * window[k + period]) \div 32768) + 32769])

CorrelationLow(window, period, lo, hi) ==
    BagCardinality([k \in lo..hi |->
                       ((window[k] * window[k + period]) % 32768) + 1])

\* correlation after the inner loop: high * 2^15 + low.  Each part is bound
\* to its value, so that it is summed once.
Correlation(window, period, lo, hi) ==
    CHOOSE sum \in {WideAdd([hi |-> high \div 32, lo |-> 0],
                            WideOf((high % 32) * 32768 + low)) :
                        high \in {CorrelationHigh(window, period, lo, hi)
                                      - 32769 * Max(0, hi - lo + 1)},
                        low \in {CorrelationLow(window, period, lo, hi)
                                     - Max(0, hi - lo + 1)}} : TRUE

\* One iteration of the loop of estimatePitch over period; best is
\* [period, correlation], the correlation the mean sum / count held as
\* whole + num / den.  bestCorrelation starts at 0 and only grows, so only
\* a positive correlation replaces it.
estimatePitchIteration(window, period, best) ==
    LET count == Max(0, Len(window) - period)
    IN  IF count > 0
        THEN CHOOSE next \in
                 {IF MixedLess(best.correlation, correlation)
                  THEN [period |-> period, correlation |-> correlation]
                  ELSE best :
                      correlation \in
                          {WideMean(sum, count) :
                              sum \in {Correlation(window, period, 1, count)}}} : TRUE
        ELSE best

\* The iterations for period = lo..hi, the first half before the second.
RECURSIVE PitchSearch(_, _, _, _)
PitchSearch(window, lo, hi, best) ==
    IF lo > hi THEN best
    ELSE IF lo = hi THEN estimatePitchIteration(window, lo, best)
    ELSE LET mid == (lo + hi) \div 2
             half == PitchSearch(window, lo, mid, best)
         IN  IF half.period >= 0 THEN PitchSearch(window, mid + 1, hi, half)
             ELSE half

\* estimatePitch(window, sampleRate): the best lag in
\* [floor(sampleRate / 800), floor(sampleRate / 80)], or 0 when no lag has a
\* positive correlation.  The pitch is sampleRate / bestPeriod.
BestPeriod(window, sampleRate) ==
    PitchSearch(window, sampleRate \div 800, sampleRate \div 80,
                [period |-> 0,
                 correlation |-> [whole |-> 0, num |-> 0, den |-> 1]]).period

TonalWindowSize(sampleRate) == (sampleRate * 2) \div 100

TonalLoopStart == [i |-> 0, pitchValues |-> <<>>, windows |-> <<>>]

\* The loop condition of calculateRealTonalVariation:
\* i < samples.length - windowSize.
TonalLoopRuns(st, smp, sampleRate) ==
    st.i < Len(smp) - TonalWindowSize(sampleRate)

\* A mutant of calculateRealTonalIteration: every pitch is pushed, the 0 of
\* a window without a positive correlation included.
calculateRealTonalIterationKeepingAll(st, smp, sampleRate) ==
    LET windowSize == TonalWindowSize(sampleRate)
        window == Slice(smp, st.i, st.i + windowSize)
        period == BestPeriod(window, sampleRate)
    IN  [i |-> st.i + windowSize,
         pitchValues |-> Append(st.pitchValues, [num |-> sampleRate, den |-> period]),
         windows |-> Append(st.windows, [start |-> st.i, end |-> st.i + windowSize])]

\* One iteration of the loop of calculateRealTonalVariation: the pitch of
\* the window at i is pushed when it is > 0, that is when a best lag > 0
\* was found.
calculateRealTonalIteration(st, smp, sampleRate) ==
    LET windowSize == TonalWindowSize(sampleRate)
        window == Slice(smp, st.i, st.i + windowSize)
        period == BestPeriod(window, sampleRate)
    IN  [i |-> st.i + windowSize,
         pitchValues |-> IF period > 0
                         THEN Append(st.pitchValues, [num |-> sampleRate, den |-> period])
                         ELSE st.pitchValues,
         windows |-> Append(st.windows, [start |-> st.i, end |-> st.i + windowSize])]

\* n iterations of the loop from state st, the first half before the second.
RECURSIVE TonalIterations(_, _, _, _)
TonalIterations(st, n, smp, sampleRate) ==
    IF n = 0 THEN st
    ELSE IF n = 1 THEN calculateRealTonalIteration(st, smp, sampleRate)
    ELSE LET half == TonalIterations(st, n \div 2, smp, sampleRate)
         IN  IF half.i >= 0
             THEN TonalIterations(half, n - n \div 2, smp, sampleRate)
             ELSE half

\* The lags of the pitch values, pitch = sampleRate / lag.
PitchPeriods(values) == [k \in 1..Len(values) |-> values[k].den]

\* The least common multiple of seq[j] for j >= k.
RECURSIVE LcmOf(_, _)
LcmOf(seq, k) ==
    IF k > Len(seq) THEN 1
    ELSE IF k = Len(seq) THEN seq[k]
    ELSE LET mid == (k + Len(seq)) \div 2
             left == LcmOf(SubSeq(seq, 1, mid), k)
             right == LcmOf(seq, mid + 1)
         IN  (left \div Gcd(left, right)) * right

\* (variationRatio)^2 as a fraction, for pitches sampleRate / periods[k].
\* With u[k] = lcm / periods[k], the pitches are proportional to u and
\* (stddev / mean)^2 = (n * sum u^2 - (sum u)^2) / (sum u)^2.
VariationSquared(periods) ==
    LET lcm == LcmOf(periods, 1)
        u == [k \in 1..Len(periods) |-> lcm \div periods[k]]
        sum == Sum(u, 1)
        squares == SumSquares(u, 1)
    IN  [num |-> Len(periods) * squares - sum * sum, den |-> sum * sum]

\* variationRatio < num / den; rounding is how the computed variationRatio
\* compares with a limit it equals.
VariationBelow(periods, num, den, rounding) ==
    FloatLess(VariationSquared(periods), [num |-> num * num, den |-> den * den],
              rounding)

\* A mutant of TonalBucket: an empty pitch track scores 3.
TonalBucketEmptyThree(periods, rounding) ==
    IF Len(periods) = 0 THEN 30
    ELSE IF VariationBelow(periods, 1, 20, rounding) THEN 20
    ELSE IF VariationBelow(periods, 3, 20, rounding) THEN 30
    ELSE IF VariationBelow(periods, 1, 4, rounding) THEN 50
    ELSE IF VariationBelow(periods, 7, 20, rounding) THEN 40
    ELSE 30

TonalBucket(periods, rounding) ==
    IF Len(periods) = 0 THEN 20
    ELSE IF VariationBelow(periods, 1, 20, rounding) THEN 20
    ELSE IF VariationBelow(periods, 3, 20, rounding) THEN 30
    ELSE IF VariationBelow(periods, 1, 4, rounding) THEN 50
    ELSE IF VariationBelow(periods, 7, 20, rounding) THEN 40
    ELSE 30

\* The return of calculateRealTonalVariation after its loop.
TonalLoopExit(st, rounding) == TonalBucket(PitchPeriods(st.pitchValues), rounding)

\* calculateRealTonalVariation(audioData).  Nothing in the try block throws
\* on a sample array.
calculateRealTonalVariation(audioData, rounding) ==
    LET smp == audioData.samples
        sampleRate == audioData.sampleRate
        windowSize == TonalWindowSize(sampleRate)
        st == TonalIterations(TonalLoopStart,
                              LoopCount(0, Len(smp) - windowSize, windowSize),
                              smp, sampleRate)
    IN  TryCatch(Return(TonalLoopExit(st, rounding)), 32)

(***************************************************************************)
(* The derived scores.  With scores held times ten, the weighted sum is    *)
(* held times a hundred; Math.round(x * 10) / 10 is then (x + 5) \div 10.  *)
(* No sum of the scores the code produces ends in 5, so the rounding of    *)
(* the doubles agrees with the exact rounding.                             *)
(***************************************************************************)
RoundToTenth(hundredths) == (Min(500, Max(100, hundredths)) + 5) \div 10

calculateConfidenceFromMetrics(audioMetrics) ==
    LET volume == audioMetrics.volume
        clarity == audioMetrics.clarity
        pace == audioMetrics.pace
        tonalVariation == audioMetrics.tonalVariation
        confidenceScore ==
            volume * 3 + clarity * 3 + pace * 2
            + (IF tonalVariation >= 30 /\ tonalVariation <= 40 THEN 100
               ELSE tonalVariation * 2)
    IN  RoundToTenth(confidenceScore)

\* A mutant of calculateEnthusiasmFromMetrics: the bonus needs pace > 4.
calculateEnthusiasmFromMetricsAboveFour(audioMetrics) ==
    LET volume == audioMetrics.volume
        tonalVariation == audioMetrics.tonalVariation
        pace == audioMetrics.pace
        enthusiasmScore ==
            volume * 4 + tonalVariation * 4
            + (IF pace > 40 THEN 100 ELSE pace * 2)
    IN  RoundToTenth(enthusiasmScore)

calculateEnthusiasmFromMetrics(audioMetrics) ==
    LET volume == audioMetrics.volume
        tonalVariation == audioMetrics.tonalVariation
        pace == audioMetrics.pace
        enthusiasmScore ==
            volume * 4 + tonalVariation * 4
            + (IF pace >= 40 THEN 100 ELSE pace * 2)
    IN  RoundToTenth(enthusiasmScore)

(***************************************************************************)
(* analyzeAudioProperties.                                                 *)
(***************************************************************************)
MetricNames ==
    {"pace", "volume", "clarity", "pauseDuration", "tonalVariation",
     "confidence", "enthusiasm"}

\* The record the catch block of analyzeAudioProperties returns.
DefaultMetrics ==
    [pace |-> 35, volume |-> 40, clarity |-> 38, pauseDuration |-> 21,
     tonalVariation |-> 32, confidence |-> 37, enthusiasm |-> 34]

\* The try block of analyzeAudioProperties after its two awaits (lines
\* 156-169): audioData is what processAudioBuffer resolved to and pace what
\* calculateRealPace returned.  The outcome is [threw, value, caught],
\* caught being the score functions whose catch block ran.
AnalyzeBody(audioData, pace, ties, rounding) ==
    LET volume == calculateRealVolume(audioData, rounding.volume)
        clarity == calculateRealClarity(audioData)
        pauseDuration == calculateRealPauses(audioData, ties, rounding.pauses)
        tonalVariation == calculateRealTonalVariation(audioData, rounding.tonal)
        primary == [pace |-> pace.value, volume |-> volume.value,
                    clarity |-> clarity.value,
                    pauseDuration |-> pauseDuration.value,
                    tonalVariation |-> tonalVariation.value,
                    confidence |-> 0, enthusiasm |-> 0]
        withConfidence ==
            [primary EXCEPT !.confidence = calculateConfidenceFromMetrics(primary)]
        audioMetrics ==
            [withConfidence EXCEPT
                !.enthusiasm = calculateEnthusiasmFromMetrics(withConfidence)]
        ran == {<<"calculateRealPace", pace>>, <<"calculateRealVolume", volume>>,
                <<"calculateRealClarity", clarity>>,
                <<"calculateRealPauses", pauseDuration>>,
                <<"calculateRealTonalVariation", tonalVariation>>}
    IN  IF \E r \in ran : r[2].threw
        THEN [threw |-> TRUE, value |-> "Error", caught |-> {}]
        ELSE [threw |-> FALSE, value |-> audioMetrics,
              caught |-> {r[1] : r \in {x \in ran : x[2].caught}}]

\* A mutant of analyzeAudioProperties: no catch block, the promise rejects.
analyzeAudioPropertiesNoCatch(body) == body

\* analyzeAudioProperties(audioBuffer), its try and catch around the
\* outcome of the try block: the catch block (lines 170-182) returns the
\* default record.
analyzeAudioProperties(body) ==
    IF body.threw
    THEN [threw |-> FALSE, value |-> DefaultMetrics,
          caught |-> {"analyzeAudioProperties"}]
    ELSE body

(***************************************************************************)
(* Sequences of bytes up to a length.                                      *)
(***************************************************************************)
SeqsUpTo(S, n) == UNION {[1..k -> S] : k \in 0..n}

(***************************************************************************)
(* The decoder on its own: extractSamplesFromBuffer applied to a buffer.   *)
(***************************************************************************)
DecodeInit ==
    /\ pc = "start"
    /\ audioBuffer \in [kind : BufferKinds, bytes : SeqsUpTo(DecodeBytes, MaxDecodeBytes)]
    /\ result = None
    /\ server = None
    /\ store = None
    /\ caught = {}
    /\ samples = <<>>
    /\ detector = None
    /\ i = 0
    /\ inSpeech = FALSE
    /\ segmentStart = 0
    /\ inSilence = FALSE
    /\ silenceStart = 0
    /\ segments = <<>>
    /\ inputData = None
    /\ inputMetrics = None
    /\ pitchValues = <<>>
    /\ windows = <<>>
    /\ callee = None

ExtractSamples ==
    /\ pc = "start"
    /\ pc' = "done"
    /\ result' = extractSamplesFromBuffer(audioBuffer)
    /\ UNCHANGED <<audioBuffer, caught>>
    /\ UNCHANGED detectorVars
    /\ UNCHANGED scoreVars
    /\ UNCHANGED serverVars

DecodeNext == ExtractSamples

SpecDecode == DecodeInit /\ [][DecodeNext]_vars

(***************************************************************************)
(* The two detectors, one loop iteration per step.  detectSpeechSegments   *)
(* takes (samples, sampleRate); detectSilentSegments takes (samples,       *)
(* sampleRate, threshold, minDuration).                                    *)
(***************************************************************************)
\* Samples (times 32768) of the detectors' inputs.  At a 2-sample speech
\* window, <<1400, 0>> is below 0.001 and <<1400, 1400>> above it; 1400 is
\* below 0.01 and 4000 above it.
Amplitudes == {0, 1400, -4000}

SpeechSampleRates == {50, 100}

SilenceSampleRates == {100, 250}

\* A threshold that a window's energy can equal: (4000 / 32768)^2.
AttainedThreshold == [num |-> 16000000, den |-> 1]

SilenceThresholds == {SilenceThreshold, AttainedThreshold}

\* 0.02 s is two 10 ms windows at 100 Hz, so that runs shorter than, equal
\* to and longer than minDuration all fit in MaxSamples samples.
MinDurations == {[num |-> 1, den |-> 50], MinPauseDuration}

Detectors ==
    {[name |-> "detectSpeechSegments", sampleRate |-> r] : r \in SpeechSampleRates}
    \cup
    {[name |-> "detectSilentSegments", sampleRate |-> r, threshold |-> t,
      minDuration |-> m] :
        r \in SilenceSampleRates, t \in SilenceThresholds, m \in MinDurations}

SegInit ==
    /\ pc = "loop"
    /\ audioBuffer = None
    /\ result = None
    /\ server = None
    /\ store = None
    /\ caught = {}
    /\ samples \in SeqsUpTo(Amplitudes, MaxSamples)
    /\ detector \in Detectors
    /\ i = 0
    /\ inSpeech = FALSE
    /\ segmentStart = 0
    /\ inSilence = FALSE
    /\ silenceStart = 0
    /\ segments = <<>>
    /\ inputData = None
    /\ inputMetrics = None
    /\ pitchValues = <<>>
    /\ windows = <<>>
    /\ callee = None

SpeechState ==
    [i |-> i, inSpeech |-> inSpeech, segmentStart |-> segmentStart,
     segments |-> segments]

SilenceState ==
    [i |-> i, inSilence |-> inSilence, silenceStart |-> silenceStart,
     segments |-> segments]

\* One iteration of the loop of detectSpeechSegments.
SpeechWindow ==
    /\ pc = "loop"
    /\ detector.name = "detectSpeechSegments"
    /\ i < Len(samples)
    /\ LET st == detectSpeechIteration(SpeechState, samples, detector.sampleRate)
       IN  /\ i' = st.i
           /\ inSpeech' = st.inSpeech
           /\ segmentStart' = st.segmentStart
           /\ segments' = st.segments
    /\ UNCHANGED <<pc, audioBuffer, result, caught, samples, detector,
                   inSilence, silenceStart>>
    /\ UNCHANGED scoreVars
    /\ UNCHANGED serverVars

\* The loop of detectSpeechSegments ends and the function returns.
SpeechReturn ==
    /\ pc = "loop"
    /\ detector.name = "detectSpeechSegments"
    /\ i >= Len(samples)
    /\ pc' = "done"
    /\ result' = Return(SpeechLoopExit(SpeechState, samples))
    /\ UNCHANGED <<audioBuffer, caught>>
    /\ UNCHANGED detectorVars
    /\ UNCHANGED scoreVars
    /\ UNCHANGED serverVars

\* One iteration of the loop of detectSilentSegments.
SilentWindow ==
    /\ pc = "loop"
    /\ detector.name = "detectSilentSegments"
    /\ i < Len(samples)
    /\ \E roundsUp \in BOOLEAN :
         LET st == detectSilentIteration(SilenceState, samples, detector.sampleRate,
                       detector.threshold, detector.minDuration, roundsUp)
         IN  /\ i' = st.i
             /\ inSilence' = st.inSilence
             /\ silenceStart' = st.silenceStart
             /\ segments' = st.segments
    /\ UNCHANGED <<pc, audioBuffer, result, caught, samples, detector,
                   inSpeech, segmentStart>>
    /\ UNCHANGED scoreVars
    /\ UNCHANGED serverVars

\* The loop of detectSilentSegments ends and the function returns.
SilentReturn ==
    /\ pc = "loop"
    /\ detector.name = "detectSilentSegments"
    /\ i >= Len(samples)
    /\ pc' = "done"
    /\ result' = Return(SilenceLoopExit(SilenceState, samples))
    /\ UNCHANGED <<audioBuffer, caught>>
    /\ UNCHANGED detectorVars
    /\ UNCHANGED scoreVars
    /\ UNCHANGED serverVars

SegNext == SpeechWindow \/ SpeechReturn \/ SilentWindow \/ SilentReturn

SpecSegments == SegInit /\ [][SegNext]_vars

(***************************************************************************)
(* Claims about the decoder (checked under SpecDecode).                    *)
(***************************************************************************)
DecodedBuffer ==
    /\ pc = "done"
    /\ audioBuffer.kind = "Buffer"
    /\ ~result.threw

\* C4: for a Buffer of even positive length L, extractSamplesFromBuffer does
\* not throw and returns exactly L/2 samples, the k-th being the 16-bit
\* two's-complement little-endian integer of bytes 2k and 2k+1 (over 32768):
\* the one integer in [-32768, 32767] congruent to lo + 256 * hi mod 65536.
C4_EvenBufferDecodes ==
    (/\ pc = "done"
     /\ audioBuffer.kind = "Buffer"
     /\ Len(audioBuffer.bytes) > 0
     /\ Len(audioBuffer.bytes) % 2 = 0)
    => /\ ~result.threw
       /\ 2 * Len(result.value) = Len(audioBuffer.bytes)
       /\ \A k \in 1..Len(result.value) :
            LET v == result.value[k]
                lo == audioBuffer.bytes[2 * k - 1]
                hi == audioBuffer.bytes[2 * k]
            IN  /\ v >= -32768
                /\ v <= 32767
                /\ (v - (lo + 256 * hi)) % 65536 = 0

C4_Witness ==
    /\ DecodedBuffer
    /\ Len(audioBuffer.bytes) = 4
    /\ result.value[1] < 0
    /\ result.value[2] > 255

\* C5 as claimed: every decoded sample is greater than -1 and at most 1.
C5_AsClaimed ==
    (pc = "done" /\ ~result.threw)
    => \A k \in 1..Len(result.value) :
         /\ result.value[k] > -Int16Scale
         /\ result.value[k] <= Int16Scale

\* C5 amended: every decoded sample lies in [-1, 1): at least -1 (reached by
\* the bytes 00 80) and less than 1.
C5_SampleRange ==
    (pc = "done" /\ ~result.threw)
    => \A k \in 1..Len(result.value) :
         /\ result.value[k] >= -Int16Scale
         /\ result.value[k] < Int16Scale

C5_Witness ==
    /\ DecodedBuffer
    /\ \E k \in 1..Len(result.value) : result.value[k] = -Int16Scale
    /\ \E k \in 1..Len(result.value) : result.value[k] = Int16Scale - 1

(***************************************************************************)
(* Claims about the segment detectors (checked under SpecSegments).        *)
(***************************************************************************)
IsSpeech == detector.name = "detectSpeechSegments"

IsSilent == detector.name = "detectSilentSegments"

WindowSize ==
    IF IsSpeech THEN SpeechWindowSize(detector.sampleRate)
    ELSE SilenceWindowSize(detector.sampleRate)

\* The start indices of the windows of the buffer, and of those handled so far.
WindowStarts == {b \in 0..(Len(samples) - 1) : b % WindowSize = 0}

HandledStarts == {b \in WindowStarts : b < i}

EnergyAt(b) == calculateWindowEnergy(Slice(samples, b, b + WindowSize))

\* The window at b is on the side of the threshold that opens a segment.
LoudAt(b) == FracGreater(EnergyAt(b), SpeechEnergyThreshold)

SilentAt(b) == FracLess(EnergyAt(b), detector.threshold)

OpensAt(b) == IF IsSpeech THEN LoudAt(b) ELSE SilentAt(b)

\* A run of opening windows ends at b: the window at b closes what the
\* window before it left open.
ClosesAt(b) == b >= WindowSize /\ ~OpensAt(b) /\ OpensAt(b - WindowSize)

\* The start of the run that the window at b closes.
RunStart(b) ==
    CHOOSE a \in WindowStarts :
        /\ a < b
        /\ \A c \in WindowStarts : (a <= c /\ c < b) => OpensAt(c)
        /\ (a = 0 \/ ~OpensAt(a - WindowSize))

SegmentsOrdered(segs) ==
    \A k \in 1..Len(segs) :
        /\ segs[k].start >= 0
        /\ segs[k].end > segs[k].start
        /\ (k > 1 => segs[k].start >= segs[k - 1].end)

\* C7: the segment list of either detector is time-ordered and
\* non-overlapping at every point of the loop and on return: each segment
\* has end > start >= 0 and starts no earlier than the previous one ended.
\* (index / sampleRate is strictly increasing in the index.)
C7_SegmentsOrdered ==
    /\ SegmentsOrdered(segments)
    /\ (pc = "done" => SegmentsOrdered(result.value))

C7_Witness ==
    /\ pc = "done"
    /\ IsSpeech
    /\ Len(result.value) >= 2

\* C8: on return, every segment was closed by a window inside the buffer
\* (its end is the start index of a window, before the end of the buffer);
\* a segment still open when the loop ends is not in the list; a buffer
\* whose windows are all above the speech threshold gives no speech segment.
C8_OpenSegmentDropped ==
    pc = "done"
    => /\ \A k \in 1..Len(result.value) :
            /\ result.value[k].end \in WindowStarts
            /\ ClosesAt(result.value[k].end)
       /\ (IsSpeech /\ inSpeech)
            => \A k \in 1..Len(result.value) : result.value[k].start # segmentStart
       /\ (IsSilent /\ inSilence)
            => \A k \in 1..Len(result.value) : result.value[k].start # silenceStart
       /\ (IsSpeech /\ \A b \in WindowStarts : LoudAt(b)) => result.value = <<>>

C8_Witness ==
    /\ pc = "done"
    /\ IsSpeech
    /\ Cardinality(WindowStarts) >= 2
    /\ \A b \in WindowStarts : LoudAt(b)
    /\ inSpeech
    /\ result.value = <<>>

\* The exact duration of [from, to) against minDuration, as -1, 0 or 1.
DurationSign(from, to) ==
    LET lhs == (to - from) * detector.minDuration.den
        rhs == detector.minDuration.num * detector.sampleRate
    IN  IF lhs < rhs THEN -1 ELSE IF lhs = rhs THEN 0 ELSE 1

HasSegment(a, b) ==
    \E k \in 1..Len(segments) : segments[k] = [start |-> a, end |-> b]

\* C9: in detectSilentSegments every segment lasts at least minDuration; a
\* closed silent run shorter than minDuration is not in the list and a
\* longer one is; after any window, inSilence says whether that window was
\* below the threshold, so the detector has left the silence state after
\* dropping a short run.  detectSpeechSegments keeps every closed run,
\* whatever its length.
C9_MinDuration ==
    /\ IsSilent =>
         /\ \A k \in 1..Len(segments) :
                DurationSign(segments[k].start, segments[k].end) >= 0
         /\ \A b \in HandledStarts :
                ClosesAt(b) =>
                    /\ DurationSign(RunStart(b), b) < 0 => ~HasSegment(RunStart(b), b)
                    /\ DurationSign(RunStart(b), b) > 0 => HasSegment(RunStart(b), b)
         /\ i > 0 => (inSilence <=> SilentAt(i - WindowSize))
    /\ IsSpeech =>
         \A b \in HandledStarts : ClosesAt(b) => HasSegment(RunStart(b), b)

C9_Witness ==
    /\ pc = "done"
    /\ IsSilent
    /\ Len(segments) >= 1
    /\ ~inSilence
    /\ \E b \in HandledStarts :
          /\ ClosesAt(b)
          /\ DurationSign(RunStart(b), b) < 0
          /\ \E k \in 1..Len(segments) : segments[k].start > b

\* What one loop iteration did to the detector's state flag.
Iterates == pc = "loop" /\ i' # i

Opened == IF IsSpeech THEN ~inSpeech /\ inSpeech' ELSE ~inSilence /\ inSilence'

Closed == IF IsSpeech THEN inSpeech /\ ~inSpeech' ELSE inSilence /\ ~inSilence'

Active == IF IsSpeech THEN inSpeech ELSE inSilence

\* C10 as claimed: in both detectors a segment is opened only by a window
\* whose energy is above the threshold and closed only by one that is not.
C10_AsClaimed ==
    [][Iterates =>
         /\ (Opened => FracGreater(EnergyAt(i),
                IF IsSpeech THEN SpeechEnergyThreshold ELSE detector.threshold))
         /\ (Closed => FracLessEq(EnergyAt(i),
                IF IsSpeech THEN SpeechEnergyThreshold ELSE detector.threshold))]_vars

\* C10 amended: the two loops have the same two states but opposite
\* comparisons.  detectSpeechSegments opens a segment exactly when it is not
\* in speech and the window energy is > 0.001, and closes (and appends) it
\* exactly when it is in speech and the energy is <= 0.001.
\* detectSilentSegments opens a segment exactly when it is not in silence and
\* the window energy is < threshold, and closes it exactly when it is in
\* silence and the energy is >= threshold, appending it or not.
C10_InvertedMachines ==
    [][Iterates =>
         /\ IsSpeech =>
              /\ Opened <=> (~Active /\ FracGreater(EnergyAt(i), SpeechEnergyThreshold))
              /\ Closed <=> (Active /\ FracLessEq(EnergyAt(i), SpeechEnergyThreshold))
              /\ Closed => segments' = Append(segments,
                                [start |-> segmentStart, end |-> i])
              /\ ~Closed => segments' = segments
         /\ IsSilent =>
              /\ Opened <=> (~Active /\ FracLess(EnergyAt(i), detector.threshold))
              /\ Closed <=> (Active /\ FracGreaterEq(EnergyAt(i), detector.threshold))
              /\ Closed => segments' \in {segments, Append(segments,
                                [start |-> silenceStart, end |-> i])}
              /\ ~Closed => segments' = segments]_vars

C10_Witness ==
    /\ IsSilent
    /\ inSilence
    /\ Len(segments) >= 1
    /\ detector.threshold = AttainedThreshold
    /\ \E b \in HandledStarts : FracEqual(EnergyAt(b), AttainedThreshold)

(***************************************************************************)
(* analyzeAudioProperties applied to a byte buffer.                        *)
(***************************************************************************)
\* The closing indices at which the duration can equal minDuration exactly.
PossibleTies(buffer) ==
    {b \in 0..(Len(buffer.bytes) \div 2) :
        /\ b % SilenceWindowSize(SampleRate) = 0
        /\ \E a \in 0..b :
              (b - a) * MinPauseDuration.den = MinPauseDuration.num * SampleRate}

Init ==
    /\ pc = "start"
    /\ audioBuffer \in [kind : BufferKinds,
                         bytes : SeqsUpTo(PipelineBytes, MaxBytes) \cup BoundaryBytes]
    /\ result = None
    /\ server = None
    /\ store = None
    /\ caught = {}
    /\ samples = <<>>
    /\ detector = None
    /\ i = 0
    /\ inSpeech = FALSE
    /\ segmentStart = 0
    /\ inSilence = FALSE
    /\ silenceStart = 0
    /\ segments = <<>>
    /\ inputData = None
    /\ inputMetrics = None
    /\ pitchValues = <<>>
    /\ windows = <<>>
    /\ callee = None

\* The call of analyzeAudioProperties up to its first await (line 151):
\* processAudioBuffer has run to its end, the samples are copied out of the
\* buffer and its promise is settled.  Its catch block (lines 199-202) logs
\* the exception and throws it again.
AnalyzeAudio ==
    /\ pc = "start"
    /\ pc' = "decoded"
    /\ \E processed \in {processAudioBuffer(audioBuffer)} :
          /\ inputData' = processed
          /\ caught' = IF processed.threw THEN {"processAudioBuffer"} ELSE {}
    /\ UNCHANGED <<audioBuffer, result, inputMetrics, pitchValues, windows, callee>>
    /\ UNCHANGED detectorVars
    /\ UNCHANGED serverVars

\* The await of line 151 on a rejected promise throws inside the try block:
\* the call ends in its catch block.
AnalyzeRejected ==
    /\ pc = "decoded"
    /\ inputData.threw
    /\ pc' = "done"
    /\ \E outcome \in {analyzeAudioProperties(
                          [threw |-> TRUE, value |-> inputData.value,
                           caught |-> {}])} :
          /\ result' = [threw |-> outcome.threw, value |-> outcome.value]
          /\ caught' = caught \cup outcome.caught
    /\ UNCHANGED audioBuffer
    /\ UNCHANGED detectorVars
    /\ UNCHANGED scoreVars
    /\ UNCHANGED serverVars

\* From the await of line 151 to the await of line 155: calculateRealPace
\* has returned and its value is awaited.
AnalyzePace ==
    /\ pc = "decoded"
    /\ ~inputData.threw
    /\ pc' = "paced"
    /\ \E rounding \in Roundings :
          inputMetrics' = calculateRealPace(inputData.value, rounding)
    /\ UNCHANGED <<audioBuffer, result, caught, inputData, pitchValues, windows,
                   callee>>
    /\ UNCHANGED detectorVars
    /\ UNCHANGED serverVars

\* From the await of line 155 to the return: the four other primary
\* scores, the two derived scores, and the catch block when one threw.
AnalyzeScores ==
    /\ pc = "paced"
    /\ pc' = "done"
    /\ \E ties \in SUBSET PossibleTies(inputData.value.buffer),
          rounding \in [volume : Roundings, pauses : Roundings, tonal : Roundings] :
         \E outcome \in {analyzeAudioProperties(
                            AnalyzeBody(inputData.value, inputMetrics, ties,
                                        rounding))} :
             /\ result' = [threw |-> outcome.threw, value |-> outcome.value]
             /\ caught' = caught \cup outcome.caught
    /\ UNCHANGED audioBuffer
    /\ UNCHANGED detectorVars
    /\ UNCHANGED scoreVars
    /\ UNCHANGED serverVars

Next ==
    \/ AnalyzeAudio
    \/ AnalyzeRejected
    \/ AnalyzePace
    \/ AnalyzeScores

Spec == Init /\ [][Next]_vars

(***************************************************************************)
(* Claims about analyzeAudioProperties (specification Spec).               *)
(***************************************************************************)
Returned == pc = "done"

SampleCount == Len(audioBuffer.bytes) \div 2

OuterCatchRan == "analyzeAudioProperties" \in caught

\* C1: analyzeAudioProperties never rejects: for every byte buffer it
\* resolves to a record with exactly the seven score fields.
C1_NeverRejects ==
    Returned => /\ ~result.threw
                /\ DOMAIN result.value = MetricNames

\* The catch block of analyzeAudioProperties ran (readInt16LE is missing on a
\* byte array that is not a Buffer) and the call still resolved.
C1_Witness ==
    /\ Returned
    /\ audioBuffer.kind = "Uint8Array"
    /\ SampleCount > 0
    /\ OuterCatchRan
    /\ ~result.threw

\* C2 (as claimed): whenever any stage throws, the returned record is exactly
\* the default record, so a returned record is fully computed or exactly
\* the default.  The catch block of analyzeAudioProperties returns the
\* default record, but an exception inside a score function is caught by
\* that function's own catch block and replaces that score alone.
C2_AsClaimed ==
    Returned /\ caught # {} => result.value = DefaultMetrics

\* C3 as stated: a buffer of length 0 or of odd length fails to decode and
\* analyzeAudioProperties returns the default record.
C3_AsClaimed ==
    (Returned /\ audioBuffer.kind = "Buffer"
       /\ (Len(audioBuffer.bytes) = 0 \/ Len(audioBuffer.bytes) % 2 = 1)) =>
        /\ OuterCatchRan
        /\ result.value = DefaultMetrics

\* The scores the derived scores are computed from, each drawn from the
\* values its score function can return.
PrimaryScores ==
    [pace : {20, 30, 40, 50, 35}, volume : {20, 30, 40, 50},
     clarity : {10, 20, 30, 40, 50, 38},
     tonalVariation : {20, 30, 40, 50, 32}]

\* C6: every score of a returned record is in [1, 5] (held times ten), and
\* so are the two derived scores of every tuple of primary scores.
C6_ScoresInRange ==
    /\ Returned => \A name \in MetricNames :
                      result.value[name] >= 10 /\ result.value[name] <= 50
    /\ \A m \in PrimaryScores :
          /\ calculateConfidenceFromMetrics(m) \in 10..50
          /\ calculateEnthusiasmFromMetrics(m) \in 10..50

\* An all-zero buffer of two samples was analysed without any catch block
\* running: volume is the lowest bucket and clarity is 1.
C6_Witness ==
    /\ Returned
    /\ audioBuffer = [kind |-> "Buffer", bytes |-> <<0, 0, 0, 0>>]
    /\ caught = {}
    /\ result.value.clarity = 10
    /\ result.value.volume = 20

(***************************************************************************)
(* The score functions on their own: each applied to an audioData record   *)
(* as processAudioBuffer builds it (two bytes a sample), at sample rates   *)
(* low enough for whole segments to fit in a short sample array.           *)
(***************************************************************************)
AudioData(smp, sampleRate) ==
    [samples |-> smp, sampleRate |-> sampleRate,
     duration |-> [num |-> 2 * Len(smp), den |-> sampleRate * 2]]

\* A sample above both energy thresholds: (4000 / 32768)^2 > 0.01.
Loud == 4000

Repeat(v, n) == [k \in 1..n |-> v]

\* Runs of loud samples of the given lengths, each closed by a quiet sample.
RECURSIVE SpeechRuns(_, _)
SpeechRuns(lengths, k) ==
    IF k > Len(lengths) THEN <<>>
    ELSE Repeat(Loud, lengths[k]) \o <<0>> \o SpeechRuns(lengths, k + 1)

\* At 50 and 75 samples a second a 20 ms window is one sample; the run
\* lengths give the rates 1, 2, 3, 4.5 and 6 and the four limits of the
\* table (for instance 50 / 25 = 2, 75 * 3 / 50 = 4.5, 75 / 50 = 1.5).
PaceSampleRates == {50, 75}

PaceRunLengths == {12, 13, 15, 16, 17, 25, 30, 50}

PaceInputs ==
    {d \in {AudioData(SpeechRuns(runs, 1) \o tail, rate) :
                runs \in SeqsUpTo(PaceRunLengths, MaxRuns),
                tail \in {<<>>, <<Loud, Loud>>},
                rate \in PaceSampleRates} :
        Len(d.samples) <= MaxPaceSamples}

\* Runs of quiet samples of the given lengths, each closed by a loud sample.
RECURSIVE QuietRuns(_, _)
QuietRuns(lengths, k) ==
    IF k > Len(lengths) THEN <<>>
    ELSE Repeat(0, lengths[k]) \o <<Loud>> \o QuietRuns(lengths, k + 1)

\* At 100 samples a second a 10 ms window is one sample and the shortest
\* retained pause is 20 samples.  The run lengths and the clip lengths give
\* ratios in every bucket and on every limit of the table (20 / 401,
\* 20 / 400 = 0.05, 21 / 140 = 0.15, 20 / 80 = 0.25, 21 / 60 = 0.35).
PauseSampleRates == {100}

PauseRunLengths == {19, 20, 21, 28}

PauseClipLengths == {60, 80, 140, 400, 401}

\* A quiet tail is an open run at the end of the clip.
PauseInputs ==
    {AudioData(Repeat(Loud, length - Len(body)) \o body, rate) :
        <<body, length, rate>> \in
            {t \in {<<QuietRuns(runs, 1) \o tail, length, rate>> :
                        runs \in SeqsUpTo(PauseRunLengths, 2),
                        tail \in {<<>>, Repeat(0, 25)},
                        length \in PauseClipLengths,
                        rate \in PauseSampleRates} :
                Len(t[1]) <= t[2]}}

\* The closing indices of audioData at which a quiet run has lasted
\* minPauseDuration exactly.
ClosingTies(audioData) ==
    LET smp == audioData.samples
        sampleRate == audioData.sampleRate
        windowSize == SilenceWindowSize(sampleRate)
        quiet(a) == FracLess(calculateWindowEnergy(Slice(smp, a, a + windowSize)),
                             SilenceThreshold)
        run == (MinPauseDuration.num * sampleRate) \div MinPauseDuration.den
    IN  {b \in 0..(Len(smp) - 1) :
            /\ b % windowSize = 0
            /\ (MinPauseDuration.num * sampleRate) % MinPauseDuration.den = 0
            /\ b >= run
            /\ ~quiet(b)
            /\ \A a \in (b - run)..(b - 1) : a % windowSize = 0 => quiet(a)
            /\ (b - run = 0 \/ ~quiet(b - run - windowSize))}

\* Samples on both sides of each dB limit of calculateRealVolume: a clip of
\* constant magnitude a has rms = a / 32768, and 32768 * 10^(L / 20) is
\* 327.68, 1842.68, 10362.2 and 18426.8 for L = -40, -25, -10 and -5.
VolumeAmplitudes == {0, 327, -328, 1842, 1843, -10362, 10363, 18426, 18427}

\* Clips whose mean square lies next to a limit: the sums of squares are
\* 322122 and 322123 (means 107374 and 107374.33, around 107374.18),
\* 10186409 and 10186410 (3395469.67 and 3395470, around 3395469.77),
\* 322122546 and 322122547 (107374182 and 107374182.33, around
\* 107374182.332), 679093956 and 679093957 (339546978 and 339546978.5,
\* around 339546978.16), 1358187912 of four samples (339546978) and
\* 1073741823 of ten samples (107374182.3).
VolumeBoundaryClips ==
    {<<565, 44, 31>>, <<567, 25, 3>>, <<3190, 97, 30>>, <<3191, 52, 35>>,
     <<17947, 164, 29>>, <<17943, 413, 27>>, <<12834, 22680>>, <<26034, 1151>>,
     <<32766, 16868, 214, 44>>,
     <<10362, 10362, 10362, 10362, 10362, 10362, 20723, 266, 45, 7>>}

\* Clips whose mean square lies inside the band of a limit, where dbLevel
\* is the limit itself although the exact value is below it: 6089 samples
\* with the squares summing to 2067501550026 (6.6e-9 below the -5 dB limit
\* of 339546978.1616029) and 7242 samples with the squares summing to
\* 777603828449 (2.2e-8 below the -10 dB limit of 107374182.3320906).
VolumeBandClip(dB) ==
    IF dB = -5
    THEN [k \in 1..6089 |->
             IF k <= 4874 THEN 18427 ELSE IF k <= 6086 THEN 18426
             ELSE IF k = 6087 THEN 16868 ELSE IF k = 6088 THEN 20088 ELSE 18180]
    ELSE [k \in 1..7242 |->
             IF k <= 1096 THEN 10363 ELSE IF k <= 7239 THEN 10362
             ELSE IF k = 7240 THEN 8190 ELSE IF k = 7241 THEN 12397 ELSE 10068]

VolumeInputs ==
    {AudioData(smp, SampleRate) :
        smp \in SeqsUpTo(VolumeAmplitudes, MaxVolumeSamples)
                   \cup VolumeBoundaryClips
                   \cup {VolumeBandClip(-5), VolumeBandClip(-10)}}

\* Clips of up to four samples.  With four samples the spectrum has the
\* bins 0 and 1, kept to the clips whose bin 1 is an integer.  At 1300
\* samples a second the speech band holds both bins and the noise band
\* bin 0; at 1000 the speech band holds bin 1 and the noise band both; at
\* 44100 every band holds bin 0 alone.
ClarityAmplitudes == {0, 100, -100, 200, 300}

ClaritySampleRates == {1000, 1300, SampleRate}

ClarityInputs ==
    {AudioData(smp, rate) :
        smp \in {s \in SeqsUpTo(ClarityAmplitudes, MaxClaritySamples) :
                    Len(s) >= 4 => (s[2] = s[4] \/ s[1] = s[3])},
        rate \in ClaritySampleRates}

\* The audioMetrics the derived scores are applied to: every tuple of
\* values the score functions return (table scores and catch-block values).
MetricInputs ==
    [pace : {20, 30, 40, 50, 35}, volume : {20, 30, 40, 50},
     clarity : {10, 20, 30, 40, 50, 38},
     pauseDuration : {20, 50},
     tonalVariation : {20, 30, 40, 50, 32}]

ScoreIdle ==
    /\ pc = "call"
    /\ audioBuffer = None
    /\ result = None
    /\ server = None
    /\ store = None
    /\ caught = {}
    /\ samples = <<>>
    /\ detector = None
    /\ i = 0
    /\ inSpeech = FALSE
    /\ segmentStart = 0
    /\ inSilence = FALSE
    /\ silenceStart = 0
    /\ segments = <<>>
    /\ pitchValues = <<>>
    /\ windows = <<>>

\* The spectra and bands getFrequencyRange is called with: spectra of up to
\* MaxSpectrum bins, the three bands calculateRealClarity asks for, and
\* sample rates that put those bands inside, across and above the spectrum.
MaxSpectrum == 3

BinValues == {0, 1, 3}

FrequencyBands == {<<0, 300>>, <<300, 3400>>, <<3400, 8000>>}

\* Spectra with a band limit on a bin boundary and a binSize that is not
\* exact: 8000 Hz is 15 bins of 32000 / 60 and of 19200 / 36, 3400 Hz is 3
\* bins of 13600 / 12.
BoundarySpectra ==
    {[spectrum |-> [k \in 1..30 |-> 1], sampleRate |-> 32000],
     [spectrum |-> [k \in 1..18 |-> IF k % 2 = 0 THEN 3 ELSE 1], sampleRate |-> 19200],
     [spectrum |-> <<1, 3, 0, 1, 3, 1>>, sampleRate |-> 13600]}

FrequencyInputs ==
    {[spectrum |-> sp, freqMin |-> band[1], freqMax |-> band[2],
      sampleRate |-> sr] :
        sp \in SeqsUpTo(BinValues, MaxSpectrum), band \in FrequencyBands,
        sr \in ClaritySampleRates}
    \cup {[spectrum |-> b.spectrum, freqMin |-> band[1], freqMax |-> band[2],
           sampleRate |-> b.sampleRate] :
              b \in BoundarySpectra, band \in FrequencyBands}

ScoreInit ==
    /\ ScoreIdle
    /\ \/ /\ callee = "getFrequencyRange"
          /\ inputData \in FrequencyInputs
          /\ inputMetrics = None
       \/ /\ callee = "calculateRealPace"
          /\ inputData \in PaceInputs
          /\ inputMetrics = None
       \/ /\ callee = "calculateRealPauses"
          /\ inputData \in PauseInputs
          /\ inputMetrics = None
       \/ /\ callee = "calculateRealVolume"
          /\ inputData \in VolumeInputs
          /\ inputMetrics = None
       \/ /\ callee = "calculateRealClarity"
          /\ inputData \in ClarityInputs
          /\ inputMetrics = None
       \/ /\ callee = "performFFT"
          /\ inputData \in ClarityInputs
          /\ inputMetrics = None
       \/ /\ callee \in {"calculateConfidenceFromMetrics",
                          "calculateEnthusiasmFromMetrics"}
          /\ inputData = None
          /\ inputMetrics \in MetricInputs

\* What a score function's call leaves: its return value and whether its
\* catch block ran.
Returns(outcome) ==
    /\ pc' = "done"
    /\ result' = [threw |-> outcome.threw, value |-> outcome.value]
    /\ caught' = IF outcome.caught THEN {callee} ELSE {}
    /\ UNCHANGED <<audioBuffer, inputData, inputMetrics, pitchValues, windows,
                   callee>>
    /\ UNCHANGED detectorVars
    /\ UNCHANGED serverVars

CallPace ==
    /\ pc = "call"
    /\ callee = "calculateRealPace"
    /\ \E rounding \in Roundings :
          Returns(calculateRealPace(inputData, rounding))

CallPauses ==
    /\ pc = "call"
    /\ callee = "calculateRealPauses"
    /\ \E ties \in SUBSET ClosingTies(inputData), rounding \in Roundings :
          Returns(calculateRealPauses(inputData, ties, rounding))

CallVolume ==
    /\ pc = "call"
    /\ callee = "calculateRealVolume"
    /\ \E rounding \in Roundings :
          Returns(calculateRealVolume(inputData, rounding))

CallClarity ==
    /\ pc = "call"
    /\ callee = "calculateRealClarity"
    /\ Returns(calculateRealClarity(inputData))

\* performFFT(samples) has no catch block: its exception leaves it.
CallFFT ==
    /\ pc = "call"
    /\ callee = "performFFT"
    /\ LET fftResult == performFFT(inputData.samples)
       IN  Returns([threw |-> fftResult.threw, value |-> fftResult.value,
                    caught |-> FALSE])

\* getFrequencyRange called on its own; the call leaves the energy it
\* returns with the loop's record of what it read.
CallFrequencyRange ==
    /\ pc = "call"
    /\ callee = "getFrequencyRange"
    /\ \E low \in SUBSET BinTies({inputData.freqMin, inputData.freqMax},
                                  Len(inputData.spectrum), inputData.sampleRate) :
       \E st \in {FrequencyRangeLoop(inputData.spectrum, inputData.freqMin,
                                      inputData.freqMax, inputData.sampleRate,
                                      low)} :
          Returns(Score([energy |-> getFrequencyRange(inputData.spectrum,
                                        inputData.freqMin, inputData.freqMax,
                                        inputData.sampleRate, low),
                         nan |-> st.nan, reads |-> st.reads]))

CallConfidence ==
    /\ pc = "call"
    /\ callee = "calculateConfidenceFromMetrics"
    /\ Returns(Score(calculateConfidenceFromMetrics(inputMetrics)))

CallEnthusiasm ==
    /\ pc = "call"
    /\ callee = "calculateEnthusiasmFromMetrics"
    /\ Returns(Score(calculateEnthusiasmFromMetrics(inputMetrics)))

ScoreNext ==
    \/ CallPace
    \/ CallPauses
    \/ CallVolume
    \/ CallClarity
    \/ CallFFT
    \/ CallFrequencyRange
    \/ CallConfidence
    \/ CallEnthusiasm

SpecScores == ScoreInit /\ [][ScoreNext]_vars

(***************************************************************************)
(* The sine wave of testAudioAnalysis: 440 Hz at 44100 samples a second    *)
(* for 2 seconds, each sample Math.floor(sample * 32767) with sample =      *)
(* Math.sin(2 * Math.PI * 440 * k / sampleRate) * 0.5.  440 / 44100 =       *)
(* 22 / 2205, so the exact wave repeats every 2205 samples and SineTable    *)
(* holds the first repetition as the code computes it.                      *)
(***************************************************************************)
SineFrequency == 440

SineSeconds == 2

SineRepeat == 2205

\* Math.floor(Math.sin(2 * Math.PI * SineFrequency * k / SampleRate) * 0.5 *
\* 32767) for k = 0 .. SineRepeat - 1.
SineTable ==
    <<
    0, 1026, 2048, 3063, 4065, 5051, 6018, 6960, 7876, 8760, 9611, 10423,
    11194, 11922, 12602, 13233, 13812, 14337, 14806, 15216, 15567, 15856, 16083, 16247,
    16347, 16383, 16354, 16262, 16105, 15885, 15603, 15259, 14855, 14393, 13875, 13302,
    12677, 12002, 11279, 10513, 9705, 8859, 7978, 7066, 6126, 5162, 4178, 3177,
    2164, 1142, 116, -910, -1933, -2949, -3953, -4941, -5910, -6856, -7774, -8663,
    -9517, -10334, -11110, -11842, -12528, -13165, -13750, -14281, -14756, -15173, -15531, -15827,
    -16061, -16233, -16340, -16383, -16362, -16276, -16127, -15914, -15639, -15302, -14905, -14450,
    -13938, -13371, -12751, -12082, -11365, -10603, -9800, -8958, -8081, -7172, -6235, -5274,
    -4292, -3293, -2281, -1260, -234, 793, 1816, 2833, 3838, 4829, 5800, 6748,
    7670, 8562, 9421, 10242, 11023, 11760, 12452, 13094, 13686, 14223, 14704, 15128,
    15492, 15796, 16037, 16215, 16330, 16380, 16367, 16288, 16146, 15940, 15672, 15342,
    14952, 14503, 13998, 13437, 12823, 12159, 11447, 10691, 9892, 9054, 8181, 7276,
    6342, 5383, 4403, 3406, 2395, 1375, 350, -677, -1701, -2719, -3726, -4718,
    -5692, -6643, -7568, -8464, -9326, -10151, -10937, -11680, -12377, -13025, -13622, -14166,
    -14654, -15084, -15455, -15765, -16014, -16199, -16321, -16379, -16372, -16301, -16166, -15968,
    -15707, -15384, -15001, -14558, -14059, -13504, -12896, -12238, -11532, -10780, -9986, -9152,
    -8283, -7381, -6450, -5494, -4516, -3521, -2512, -1492, -467, 560, 1584, 2603,
    3611, 4605, 5581, 6535, 7463, 8362, 9229, 10059, 10849, 11597, 12299, 12953,
    13556, 14106, 14600, 15037, 15415, 15732, 15988, 16180, 16310, 16375, 16375, 16312,
    16184, 15993, 15739, 15423, 15046, 14611, 14117, 13569, 12967, 12314, 11613, 10866,
    10077, 9248, 8383, 7484, 6556, 5603, 4627, 3634, 2626, 1608, 583, -444,
    -1469, -2488, -3498, -4494, -5472, -6429, -7360, -8263, -9133, -9967, -10762, -11515,
    -12223, -12882, -13491, -14047, -14548, -14991, -15376, -15700, -15963, -16163, -16299, -16371,
    -16379, -16323, -16203, -16019, -15772, -15463, -15093, -14664, -14177, -13635, -13039, -12392,
    -11696, -10955, -10170, -9345, -8484, -7589, -6664, -5714, -4740, -3749, -2742, -1725,
    -701, 326, 1352, 2372, 3383, 4381, 5361, 6320, 7255, 8161, 9035, 9873,
    10673, 11431, 12144, 12809, 13423, 13985, 14493, 14943, 15334, 15665, 15935, 16142,
    16286, 16365, 16381, 16332, 16219, 16042, 15802, 15500, 15137, 14715, 14234, 13698,
    13108, 12467, 11777, 11040, 10260, 9440, 8582, 7691, 6770, 5822, 4851, 3861,
    2856, 1840, 816, -211, -1236, -2258, -3270, -4269, -5252, -6214, -7151, -8061,
    -8938, -9781, -10585, -11348, -12066, -12737, -13357, -13925, -14439, -14896, -15294, -15632,
    -15909, -16123, -16274, -16361, -16383, -16342, -16236, -16066, -15833, -15538, -15182, -14767,
    -14293, -13763, -13179, -12543, -11859, -11127, -10352, -9536, -8682, -7795, -6877, -5932,
    -4963, -3975, -2972, -1957, -934, 93, 1119, 2141, 3154, 4155, 5140, 6104,
    7045, 7958, 8839, 9686, 10495, 11262, 11986, 12662, 13288, 13862, 14382, 14846,
    15250, 15595, 15879, 16101, 16259, 16353, 16383, 16349, 16250, 16088, 15862, 15574,
    15225, 14816, 14349, 13825, 13247, 12617, 11938, 11211, 10441, 9629, 8780, 7896,
    6982, 6039, 5073, 4087, 3086, 2071, 1049, 23, -1004, -2026, -3041, -4043,
    -5030, -5997, -6940, -7856, -8742, -9593, -10406, -11178, -11907, -12588, -13221, -13801,
    -14327, -14797, -15208, -15560, -15851, -16080, -16245, -16346, -16384, -16357, -16265, -16110,
    -15892, -15611, -15268, -14866, -14406, -13888, -13316, -12692, -12018, -11297, -10532, -9725,
    -8880, -7999, -7088, -6149, -5185, -4201, -3201, -2188, -1167, -141, 886, 1909,
    2925, 3929, 4918, 5887, 6833, 7753, 8642, 9497, 10315, 11092, 11825, 12512,
    13150, 13737, 14269, 14745, 15164, 15522, 15820, 16056, 16228, 16337, 16382, 16362,
    16278, 16130, 15919, 15645, 15309, 14914, 14460, 13949, 13383, 12765, 12096, 11380,
    10620, 9817, 8976, 8100, 7192, 6256, 5295, 4313, 3314, 2303, 1282, 256,
    -771, -1794, -2811, -3817, -4807, -5779, -6728, -7651, -8543, -9402, -10225, -11006,
    -11745, -12438, -13081, -13674, -14212, -14695, -15120, -15486, -15790, -16033, -16213, -16329,
    -16381, -16369, -16292, -16151, -15947, -15680, -15352, -14963, -14515, -14011, -13451, -12839,
    -12176, -11465, -10709, -9912, -9075, -8202, -7298, -6364, -5406, -4427, -3430, -2419,
    -1399, -374, 653, 1677, 2695, 3702, 4695, 5669, 6621, 7546, 8443, 9306,
    10132, 10919, 11663, 12360, 13010, 13608, 14153, 14642, 15074, 15446, 15758, 16008,
    16195, 16318, 16377, 16372, 16303, 16169, 15972, 15712, 15391, 15009, 14568, 14070,
    13516, 12910, 12253, 11547, 10796, 10003, 9171, 8302, 7401, 6471, 5515, 4538,
    3543, 2534, 1515, 490, -537, -1562, -2581, -3589, -4584, -5560, -6515, -7444,
    -8343, -9210, -10041, -10832, -11581, -12285, -12940, -13544, -14095, -14590, -15029, -15408,
    -15727, -15984, -16178, -16308, -16375, -16377, -16315, -16189, -15999, -15746, -15432, -15056,
    -14622, -14130, -13583, -12982, -12331, -11631, -10885, -10096, -9268, -8404, -7506, -6579,
    -5626, -4651, -3658, -2650, -1632, -607, 420, 1445, 2464, 3474, 4471, 5449,
    6406, 7338, 8242, 9113, 9948, 10744, 11497, 12206, 12867, 13477, 14034, 14536,
    14981, 15367, 15692, 15957, 16158, 16296, 16369, 16379, 16324, 16205, 16023, 15777,
    15469, 15101, 14673, 14188, 13647, 13052, 12406, 11712, 10971, 10187, 9363, 8503,
    7609, 6685, 5734, 4762, 3770, 2764, 1747, 723, -304, -1330, -2350, -3361,
    -4359, -5340, -6300, -7235, -8142, -9016, -9856, -10656, -11415, -12129, -12795, -13411,
    -13974, -14483, -14934, -15327, -15660, -15931, -16139, -16284, -16365, -16382, -16335, -16223,
    -16047, -15809, -15508, -15147, -14726, -14247, -13712, -13123, -12483, -11794, -11058, -10279,
    -9460, -8603, -7713, -6792, -5845, -4874, -3885, -2880, -1864, -840, 186, 1212,
    2233, 3246, 4245, 5228, 6191, 7129, 8039, 8918, 9761, 10566, 11330, 12049,
    12721, 13343, 13912, 14427, 14885, 15284, 15624, 15902, 16118, 16270, 16358, 16382,
    16342, 16238, 16070, 15838, 15545, 15190, 14776, 14303, 13775, 13192, 12557, 11874,
    11143, 10369, 9554, 8701, 7814, 6897, 5952, 4985, 3997, 2994, 1979, 956,
    -71, -1097, -2119, -3132, -4134, -5119, -6084, -7025, -7938, -8821, -9668, -10478,
    -11246, -11971, -12648, -13276, -13851, -14372, -14837, -15243, -15589, -15874, -16097, -16257,
    -16353, -16384, -16351, -16254, -16093, -15869, -15582, -15234, -14827, -14361, -13839, -13262,
    -12633, -11955, -11229, -10460, -9649, -8801, -7918, -7004, -6062, -5097, -4111, -3109,
    -2096, -1073, -47, 979, 2002, 3017, 4020, 5007, 5974, 6918, 7835, 8721,
    9573, 10387, 11160, 11890, 12572, 13206, 13787, 14315, 14786, 15199, 15552, 15844,
    16074, 16241, 16344, 16383, 16357, 16267, 16113, 15896, 15617, 15276, 14875, 14416,
    13900, 13329, 12706, 12033, 11313, 10548, 9742, 8898, 8019, 7108, 6169, 5206,
    4223, 3223, 2210, 1189, 163, -864, -1887, -2903, -3907, -4896, -5866, -6813,
    -7733, -8623, -9479, -10297, -11075, -11810, -12498, -13137, -13725, -14259, -14736, -15156,
    -15516, -15815, -16052, -16226, -16336, -16382, -16364, -16282, -16135, -15925, -15653, -15319,
    -14925, -14472, -13962, -13398, -12780, -12113, -11398, -10639, -9837, -8997, -8121, -7214,
    -6278, -5318, -4337, -3338, -2327, -1306, -281, 746, 1770, 2787, 3793, 4784,
    5756, 6706, 7629, 8523, 9382, 10205, 10988, 11728, 12422, 13066, 13660, 14200,
    14684, 15110, 15477, 15783, 16027, 16209, 16326, 16380, 16369, 16293, 16154, 15951,
    15686, 15359, 14971, 14525, 14022, 13463, 12852, 12190, 11481, 10726, 9929, 9093,
    8222, 7318, 6385, 5427, 4448, 3451, 2441, 1422, 396, -631, -1655, -2673,
    -3680, -4673, -5648, -6600, -7527, -8424, -9287, -10115, -10902, -11647, -12346, -12997,
    -13596, -14142, -14633, -15066, -15439, -15753, -16004, -16192, -16317, -16378, -16374, -16306,
    -16174, -15978, -15720, -15400, -15019, -14580, -14083, -13531, -12925, -12269, -11565, -10815,
    -10023, -9191, -8323, -7423, -6493, -5538, -4561, -3566, -2558, -1539, -514, 513,
    1538, 2557, 3565, 4560, 5537, 6492, 7422, 8322, 9190, 10022, 10814, 11564,
    12268, 12924, 13530, 14082, 14579, 15018, 15399, 15719, 15977, 16173, 16305, 16373,
    16377, 16316, 16191, 16003, 15752, 15438, 15065, 14632, 14141, 13595, 12996, 12345,
    11646, 10901, 10114, 9286, 8423, 7526, 6599, 5647, 4672, 3679, 2672, 1654,
    630, -397, -1423, -2442, -3452, -4449, -5428, -6386, -7319, -8223, -9094, -9930,
    -10727, -11482, -12191, -12853, -13464, -14023, -14526, -14972, -15360, -15687, -15952, -16155,
    -16294, -16370, -16381, -16327, -16210, -16028, -15784, -15478, -15111, -14685, -14201, -13661,
    -13067, -12423, -11729, -10989, -10206, -9383, -8524, -7630, -6707, -5757, -4785, -3794,
    -2788, -1771, -747, 280, 1305, 2326, 3337, 4336, 5317, 6277, 7213, 8120,
    8996, 9836, 10638, 11397, 12112, 12779, 13397, 13961, 14471, 14924, 15318, 15652,
    15924, 16134, 16281, 16363, 16381, 16335, 16225, 16051, 15814, 15515, 15155, 14735,
    14258, 13724, 13136, 12497, 11809, 11074, 10296, 9478, 8622, 7732, 6812, 5865,
    4895, 3906, 2902, 1886, 863, -164, -1190, -2211, -3224, -4224, -5207, -6170,
    -7109, -8020, -8899, -9743, -10549, -11314, -12034, -12707, -13330, -13901, -14417, -14876,
    -15277, -15618, -15897, -16114, -16268, -16358, -16384, -16345, -16242, -16075, -15845, -15553,
    -15200, -14787, -14316, -13788, -13207, -12573, -11891, -11161, -10388, -9574, -8722, -7836,
    -6919, -5975, -5008, -4021, -3018, -2003, -980, 46, 1072, 2095, 3108, 4110,
    5096, 6061, 7003, 7917, 8800, 9648, 10459, 11228, 11954, 12632, 13261, 13838,
    14360, 14826, 15233, 15581, 15868, 16092, 16253, 16350, 16383, 16352, 16256, 16096,
    15873, 15588, 15242, 14836, 14371, 13850, 13275, 12647, 11970, 11245, 10477, 9667,
    8820, 7937, 7024, 6083, 5118, 4133, 3131, 2118, 1096, 70, -957, -1980,
    -2995, -3998, -4986, -5953, -6898, -7815, -8702, -9555, -10370, -11144, -11875, -12558,
    -13193, -13776, -14304, -14777, -15191, -15546, -15839, -16071, -16239, -16343, -16383, -16359,
    -16271, -16119, -15903, -15625, -15285, -14886, -14428, -13913, -13344, -12722, -12050, -11331,
    -10567, -9762, -8919, -8040, -7130, -6192, -5229, -4246, -3247, -2234, -1213, -187,
    839, 1863, 2879, 3884, 4873, 5844, 6791, 7712, 8602, 9459, 10278, 11057,
    11793, 12482, 13122, 13711, 14246, 14725, 15146, 15507, 15808, 16046, 16222, 16334,
    16381, 16364, 16283, 16138, 15930, 15659, 15326, 14933, 14482, 13973, 13410, 12794,
    12128, 11414, 10655, 9855, 9015, 8141, 7234, 6299, 5339, 4358, 3360, 2349,
    1329, 303, -724, -1748, -2765, -3771, -4763, -5735, -6686, -7610, -8504, -9364,
    -10188, -10972, -11713, -12407, -13053, -13648, -14189, -14674, -15102, -15470, -15778, -16024,
    -16206, -16325, -16380, -16370, -16297, -16159, -15958, -15693, -15368, -14982, -14537, -14035,
    -13478, -12868, -12207, -11498, -10745, -9949, -9114, -8243, -7339, -6407, -5450, -4472,
    -3475, -2465, -1446, -421, 606, 1631, 2649, 3657, 4650, 5625, 6578, 7505,
    8403, 9267, 10095, 10884, 11630, 12330, 12981, 13582, 14129, 14621, 15055, 15431,
    15745, 15998, 16188, 16314, 16376, 16374, 16307, 16177, 15983, 15726, 15407, 15028,
    14589, 14094, 13543, 12939, 12284, 11580, 10831, 10040, 9209, 8342, 7443, 6514,
    5559, 4583, 3588, 2580, 1561, 536, -491, -1516, -2535, -3544, -4539, -5516,
    -6472, -7402, -8303, -9172, -10004, -10797, -11548, -12254, -12911, -13517, -14071, -14569,
    -15010, -15392, -15713, -15973, -16170, -16304, -16373, -16378, -16319, -16196, -16009, -15759,
    -15447, -15075, -14643, -14154, -13609, -13011, -12361, -11664, -10920, -10133, -9307, -8444,
    -7547, -6622, -5670, -4696, -3703, -2696, -1678, -654, 373, 1398, 2418, 3429,
    4426, 5405, 6363, 7297, 8201, 9074, 9911, 10708, 11464, 12175, 12838, 13450,
    14010, 14514, 14962, 15351, 15679, 15946, 16150, 16291, 16368, 16380, 16328, 16212,
    16032, 15789, 15485, 15119, 14694, 14211, 13673, 13080, 12437, 11744, 11005, 10224,
    9401, 8542, 7650, 6727, 5778, 4806, 3816, 2810, 1793, 770, -257, -1283,
    -2304, -3315, -4314, -5296, -6257, -7193, -8101, -8977, -9818, -10621, -11381, -12097,
    -12766, -13384, -13950, -14461, -14915, -15310, -15646, -15920, -16131, -16279, -16363, -16383,
    -16338, -16229, -16057, -15821, -15523, -15165, -14746, -14270, -13738, -13151, -12513, -11826,
    -11093, -10316, -9498, -8643, -7754, -6834, -5888, -4919, -3930, -2926, -1910, -887,
    140, 1166, 2187, 3200, 4200, 5184, 6148, 7087, 7998, 8879, 9724, 10531,
    11296, 12017, 12691, 13315, 13887, 14405, 14865, 15267, 15610, 15891, 16109, 16264,
    16356, 16383, 16345, 16244, 16079, 15850, 15559, 15207, 14796, 14326, 13800, 13220,
    12587, 11906, 11177, 10405, 9592, 8741, 7855, 6939, 5996, 5029, 4042, 3040,
    2025, 1003, -24, -1050, -2072, -3087, -4088, -5074, -6040, -6983, -7897, -8781,
    -9630, -10442, -11212, -11939, -12618, -13248, -13826, -14350, -14817, -15226, -15575, -15863,
    -16089, -16251, -16350, -16384, -16354, -16260, -16102, -15880, -15596, -15251, -14847, -14383,
    -13863, -13289, -12663, -11987, -11263, -10496, -9687, -8840, -7959, -7046, -6105, -5141,
    -4156, -3155, -2142, -1120, -94, 933, 1956, 2971, 3974, 4962, 5931, 6876,
    7794, 8681, 9535, 10351, 11126, 11858, 12542, 13178, 13762, 14292, 14766, 15181,
    15537, 15832, 16065, 16235, 16341, 16382, 16360, 16273, 16122, 15908, 15631, 15293,
    14895, 14438, 13924, 13356, 12736, 12065, 11347, 10584, 9780, 8937, 8060, 7150,
    6213, 5251, 4268, 3269, 2257, 1235, 210, -817, -1841, -2857, -3862, -4852,
    -5823, -6771, -7692, -8583, -9441, -10261, -11041, -11778, -12468, -13109, -13699, -14235,
    -14716, -15138, -15501, -15803, -16043, -16220, -16333, -16382, -16366, -16287, -16143, -15936,
    -15666, -15335, -14944, -14494, -13986, -13424, -12810, -12145, -11432, -10674, -9874, -9036,
    -8162, -7256, -6321, -5362, -4382, -3384, -2373, -1353, -327, 700, 1724, 2741,
    3748, 4739, 5713, 6663, 7588, 8483, 9344, 10169, 10954, 11695, 12391, 13038,
    13634, 14176, 14663, 15092, 15462, 15771, 16018, 16202, 16322, 16378, 16370, 16298,
    16162, 15962, 15699, 15375, 14990, 14547, 14046, 13490, 12881, 12222, 11514, 10761,
    9966, 9132, 8262, 7359, 6428, 5471, 4493, 3497, 2487, 1468, 443, -584,
    -1609, -2627, -3635, -4628, -5604, -6557, -7485, -8384, -9249, -10078, -10867, -11614,
    -12315, -12968, -13570, -14118, -14612, -15047, -15424, -15740, -15994, -16185, -16313, -16376,
    -16376, -16311, -16181, -15989, -15733, -15416, -15038, -14601, -14107, -13557, -12954, -12300,
    -11598, -10850, -10060, -9230, -8363, -7464, -6536, -5582, -4606, -3612, -2604, -1585,
    -561, 466, 1491, 2511, 3520, 4515, 5493, 6449, 7380, 8282, 9151, 9985,
    10779, 11531, 12237, 12895, 13503, 14058, 14557, 15000, 15383, 15706, 15967, 16165,
    16300, 16371, 16378, 16320, 16198, 16013, 15764, 15454, 15083, 14653, 14165, 13621,
    13024, 12376, 11679, 10936, 10150, 9325, 8463, 7567, 6642, 5691, 4717, 3725,
    2718, 1700, 676, -351, -1376, -2396, -3407, -4404, -5384, -6343, -7277, -8182,
    -9055, -9893, -10692, -11448, -12160, -12824, -13438, -13999, -14504, -14953, -15343, -15673,
    -15941, -16147, -16289, -16368, -16381, -16331, -16216, -16038, -15797, -15493, -15129, -14705,
    -14224, -13687, -13095, -12453, -11761, -11024, -10243, -9422, -8563, -7671, -6749, -5801,
    -4830, -3839, -2834, -1817, -794, 233, 1259, 2280, 3292, 4291, 5273, 6234,
    7171, 8080, 8957, 9799, 10602, 11364, 12081, 12750, 13370, 13937, 14449, 14904,
    15301, 15638, 15913, 16126, 16275, 16361, 16382, 16339, 16232, 16060, 15826, 15530,
    15172, 14755, 14280, 13749, 13164, 12527, 11841, 11109, 10333, 9516, 8662, 7773,
    6855, 5909, 4940, 3952, 2948, 1932, 909, -117, -1143, -2165, -3178, -4179,
    -5163, -6127, -7067, -7979, -8860, -9706, -10514, -11280, -12003, -12678, -13303, -13876,
    -14394, -14856, -15260, -15604, -15886, -16106, -16263, -16355, -16384, -16348, -16248, -16084,
    -15857, -15568, -15217, -14807, -14338, -13813, -13234, -12603, -11923, -11195, -10424, -9612,
    -8761, -7877, -6961, -6019, -5052, -4066, -3064, -2049, -1027
    >>

\* The multiples k of SineRepeat, where the exact sine is 0, at which
\* Math.sin returns a negative number (of magnitude below 1e-13, the
\* argument being a double next to a multiple of pi): Math.floor makes the
\* sample -1 there.  At the other multiples Math.sin returns 0 or a positive
\* number and the sample is 0, as in the first repetition.
SineBelowZero == {55125, 59535, 63945}

\* Sample k - 1 of the buffer, as readInt16LE gives it back.
SineSamples ==
    [k \in 1..(SampleRate * SineSeconds) |->
        IF (k - 1) \in SineBelowZero THEN -1
        ELSE SineTable[((k - 1) % SineRepeat) + 1]]

\* The audioData of the sine wave; the state names the clip instead of
\* holding its 88200 samples.
SineInput ==
    [clip |-> "sine", sampleRate |-> SampleRate,
     duration |-> [num |-> 2 * Len(SineSamples), den |-> SampleRate * 2]]

(***************************************************************************)
(* calculateRealTonalVariation step by step: one action for an iteration   *)
(* of its loop over the windows, one for its return.  At 1600 samples a    *)
(* second a 20 ms window is 32 samples and the lags run from 2 to 20.      *)
(***************************************************************************)
Pulse == 100

\* A window's worth of samples: a pulse every period samples for period >
\* 0, silence for period = 0, and for period < 0 one pulse followed -period
\* samples later by its negative (no lag has a positive correlation).
PulseTrain(period, length) ==
    [k \in 1..length |->
        IF period > 0 THEN (IF (k - 1) % period = 0 THEN Pulse ELSE 0)
        ELSE IF period < 0 THEN (IF k = 1 THEN Pulse
                                 ELSE IF k = 1 - period THEN -Pulse ELSE 0)
        ELSE 0]

RECURSIVE PulseTrains(_, _, _)
PulseTrains(periods, k, length) ==
    IF k > Len(periods) THEN <<>>
    ELSE PulseTrain(periods[k], length) \o PulseTrains(periods, k + 1, length)

TonalSampleRates == {1600}

\* The best lag of a train of period 8, 11, 12, 17, 19 or 20 is its period.
PulsePeriods == {0, -5, 8, 11, 12, 17, 19, 20}

\* Clips of up to MaxWindows windows, with or without a sample after the
\* last window.
TonalInputs ==
    {AudioData(PulseTrains(periods, 1, TonalWindowSize(rate)) \o tail, rate) :
        periods \in SeqsUpTo(PulsePeriods, MaxWindows),
        tail \in {<<>>, <<Pulse>>},
        rate \in TonalSampleRates}

TonalIdle ==
    /\ pc = "loop"
    /\ audioBuffer = None
    /\ result = None
    /\ server = None
    /\ store = None
    /\ caught = {}
    /\ samples = <<>>
    /\ detector = None
    /\ i = 0
    /\ inSpeech = FALSE
    /\ segmentStart = 0
    /\ inSilence = FALSE
    /\ silenceStart = 0
    /\ segments = <<>>
    /\ inputMetrics = None
    /\ pitchValues = <<>>
    /\ windows = <<>>
    /\ callee = "calculateRealTonalVariation"

TonalInit ==
    /\ TonalIdle
    /\ inputData \in TonalInputs

TonalState == [i |-> i, pitchValues |-> pitchValues, windows |-> windows]

\* audioData.samples, looked up for a clip the state only names.
ClipSamples(audioData) ==
    IF "samples" \in DOMAIN audioData THEN audioData.samples ELSE SineSamples

\* One iteration of the loop of calculateRealTonalVariation.
TonalWindow ==
    /\ pc = "loop"
    /\ callee = "calculateRealTonalVariation"
    /\ TonalLoopRuns(TonalState, ClipSamples(inputData), inputData.sampleRate)
    /\ \E st \in {calculateRealTonalIteration(TonalState, ClipSamples(inputData),
                                                inputData.sampleRate)} :
          /\ i' = st.i
          /\ pitchValues' = st.pitchValues
          /\ windows' = st.windows
    /\ UNCHANGED <<pc, audioBuffer, result, caught, samples, detector, inSpeech,
                   segmentStart, inSilence, silenceStart, segments, inputData,
                   inputMetrics, callee>>
    /\ UNCHANGED serverVars

\* The loop ends and calculateRealTonalVariation returns its score.
TonalReturn ==
    /\ pc = "loop"
    /\ callee = "calculateRealTonalVariation"
    /\ ~TonalLoopRuns(TonalState, ClipSamples(inputData), inputData.sampleRate)
    /\ pc' = "done"
    /\ \E rounding \in Roundings :
          result' = Return(TonalLoopExit(TonalState, rounding))
    /\ UNCHANGED <<audioBuffer, caught>>
    /\ UNCHANGED detectorVars
    /\ UNCHANGED scoreVars
    /\ UNCHANGED serverVars

TonalNext ==
    \/ TonalWindow
    \/ TonalReturn

SpecTonal == TonalInit /\ [][TonalNext]_vars

SineInit ==
    /\ TonalIdle
    /\ inputData = SineInput

SpecSine == SineInit /\ [][TonalNext]_vars

(***************************************************************************)
(* Claims about the score functions (specification SpecScores).            *)
(***************************************************************************)
Called(name) == pc = "done" /\ callee = name

\* C11: calculateRealPace returns the table's score of speechRate = count /
\* total speech time (0 when there is no speech time): < 1.5 gives 2, < 2.5
\* gives 3, < 4 gives 5, < 5 gives 4, otherwise 3.  With count segments
\* covering total samples the rate is n / total, n = count * sampleRate.  A
\* rate equal to a limit is computed with a rounding error and falls in
\* either bucket next to the limit.
C11_PaceTable ==
    Called("calculateRealPace") =>
        LET segs == detectSpeechSegments(inputData.samples, inputData.sampleRate)
            n == Len(segs) * inputData.sampleRate
            total == TotalLength(segs, 1)
            score == result.value
        IN  /\ ~result.threw
            /\ caught = {}
            /\ total = 0 => score = 20
            /\ total > 0 =>
                 /\ 2 * n < 3 * total => score = 20
                 /\ 2 * n = 3 * total => score \in {20, 30}
                 /\ (3 * total < 2 * n /\ 2 * n < 5 * total) => score = 30
                 /\ 2 * n = 5 * total => score \in {30, 50}
                 /\ (5 * total < 2 * n /\ n < 4 * total) => score = 50
                 /\ n = 4 * total => score \in {50, 40}
                 /\ (4 * total < n /\ n < 5 * total) => score = 40
                 /\ n = 5 * total => score \in {40, 30}
                 /\ 5 * total < n => score = 30
                 /\ n = total => score = 20
                 /\ n = 2 * total => score = 30
                 /\ n = 3 * total => score = 50
                 /\ 2 * n = 9 * total => score = 40
                 /\ n = 6 * total => score = 30

\* Three speech segments of 16 + 17 + 17 windows at 75 samples a second:
\* speechRate is 3 / (50 / 75) = 4.5 and the score is 4.
C11_Witness ==
    /\ Called("calculateRealPace")
    /\ Len(detectSpeechSegments(inputData.samples, inputData.sampleRate)) = 3
    /\ TotalLength(detectSpeechSegments(inputData.samples,
                                        inputData.sampleRate), 1) = 50
    /\ inputData.sampleRate = 75
    /\ result.value = 40


\* The total length in samples of the silent segments calculateRealPauses
\* retains when the runs closing at the indices of ties round up.
SilenceTotal(ties) ==
    TotalLength(detectSilentSegments(inputData.samples, inputData.sampleRate,
                                     SilenceThreshold, MinPauseDuration, ties), 1)

\* C12: calculateRealPauses returns the table's score of silenceRatio =
\* (total duration of the retained silent segments) / (clip duration):
\* < 0.05 gives 2, < 0.15 gives 5, < 0.25 gives 4, < 0.35 gives 3, otherwise
\* 2; for a non-empty clip the ratio total / length lies in [0, 1].  A run
\* of exactly the minimum duration is retained or not, and a ratio equal to
\* a limit falls in either bucket next to the limit.
C12_PauseTable ==
    Called("calculateRealPauses") =>
        LET length == Len(inputData.samples)
            score == result.value
        IN  /\ ~result.threw
            /\ caught = {}
            /\ \E ties \in SUBSET ClosingTies(inputData) :
                  LET total == SilenceTotal(ties)
                  IN  /\ length > 0 => (0 <= total /\ total <= length)
                      /\ 20 * total < length => score = 20
                      /\ 20 * total = length => score \in {20, 50}
                      /\ (length < 20 * total /\ 20 * total < 3 * length)
                            => score = 50
                      /\ 20 * total = 3 * length => score \in {50, 40}
                      /\ (3 * length < 20 * total /\ 4 * total < length)
                            => score = 40
                      /\ 4 * total = length => score \in {40, 30}
                      /\ (length < 4 * total /\ 20 * total < 7 * length)
                            => score = 30
                      /\ 20 * total = 7 * length => score \in {30, 20}
                      /\ 7 * length < 20 * total => score = 20

\* A clip of 140 samples at 100 samples a second with one quiet run of 28
\* samples: the ratio is 0.2 and the score is 4.
C12_Witness ==
    /\ Called("calculateRealPauses")
    /\ Len(inputData.samples) = 140
    /\ ClosingTies(inputData) = {}
    /\ SilenceTotal({}) = 28
    /\ result.value = 40

\* Every sample of the clip has a magnitude in lo..hi.
MagnitudesWithin(lo, hi) ==
    \A k \in 1..Len(inputData.samples) :
        lo <= Abs(inputData.samples[k]) /\ Abs(inputData.samples[k]) <= hi

\* C13: calculateRealVolume returns the table's score of dB = 20 * log10(rms
\* + 1e-10): < -40 gives 2, < -25 gives 3, < -10 gives 5, < -5 gives 4,
\* otherwise 3.  rms lies between the least and the greatest magnitude of
\* the clip, so a non-empty clip whose magnitudes (times 32768) all lie
\* between two limits gets the score of that bucket; a non-empty clip of
\* zeros gets 2.  The clips 12834, 22680 (-5.000000002 dB) and 26034, 1151
\* (-4.999999996 dB) lie on the two sides of -5 dB, the clips 17947, 164,
\* 29 (-10.00000001 dB) and 17943, 413, 27 (-9.99999999995 dB) on the two
\* sides of -10 dB.  dB is the double the code computes: on a clip whose
\* exact level lies within the rounding error of a limit the score is that
\* of one of the limit's two sides (the clip of 6089 samples is
\* 1.7e-16 dB below -5 and its dbLevel is -5, score 3).
C13_VolumeTable ==
    (Called("calculateRealVolume") /\ Len(inputData.samples) > 0) =>
        LET score == result.value
        IN  /\ ~result.threw
            /\ caught = {}
            /\ MagnitudesWithin(0, 0) => score = 20
            /\ MagnitudesWithin(0, 327) => score = 20
            /\ MagnitudesWithin(328, 1842) => score = 30
            /\ MagnitudesWithin(1843, 10362) => score = 50
            /\ MagnitudesWithin(10363, 18426) => score = 40
            /\ MagnitudesWithin(18427, Int16Scale) => score = 30
            /\ inputData.samples = <<12834, 22680>> => score = 40
            /\ inputData.samples = <<26034, 1151>> => score = 30
            /\ inputData.samples = <<17947, 164, 29>> => score = 50
            /\ inputData.samples = <<17943, 413, 27>> => score = 40
            /\ inputData.samples = VolumeBandClip(-5) => score \in {40, 30}
            /\ inputData.samples = VolumeBandClip(-10) => score \in {50, 40}
            /\ score \in {20, 30, 40, 50}

\* A clip of three zero samples scores 2.
C13_Witness ==
    /\ Called("calculateRealVolume")
    /\ inputData.samples = <<0, 0, 0>>
    /\ result.value = 20

\* The spectrum the clarity score is described on: the floor(N / 2)
\* magnitude bins of the first N = min(1024, length) samples.
DescribedSpectrum ==
    LET N == Min(1024, Len(inputData.samples))
        real == SubSeq(inputData.samples, 1, N)
    IN  [k \in 1..(N \div 2) |-> Magnitude(real, k - 1)]

\* C14 as stated: calculateRealClarity returns the table's score of
\* speechBand / (speechBand + noiseBand + 1e-10), speechBand the energy of
\* 300..3400 Hz and noiseBand that of 0..300 Hz plus 3400..8000 Hz: > 0.8
\* gives 5, > 0.6 gives 4, > 0.4 gives 3, > 0.2 gives 2, otherwise 1; an
\* all-zero spectrum gives 1.  (The band sums are integers here, so ratio >
\* c / 5 iff 5 * speechBand > c * (speechBand + noiseBand).)
C14_AsClaimed ==
    Called("calculateRealClarity") =>
        /\ ~result.threw
        /\ caught = {}
        /\ LET spectrum == DescribedSpectrum
               sampleRate == inputData.sampleRate
               speechBand == getFrequencyRange(spectrum, 300, 3400, sampleRate, {})
               noiseBand == getFrequencyRange(spectrum, 0, 300, sampleRate, {})
                            + getFrequencyRange(spectrum, 3400, 8000, sampleRate, {})
               total == speechBand + noiseBand
               score == result.value
           IN  /\ 5 * speechBand > 4 * total => score = 50
               /\ (5 * speechBand <= 4 * total /\ 5 * speechBand > 3 * total)
                     => score = 40
               /\ (5 * speechBand <= 3 * total /\ 5 * speechBand > 2 * total)
                     => score = 30
               /\ (5 * speechBand <= 2 * total /\ 5 * speechBand > total)
                     => score = 20
               /\ 5 * speechBand <= total => score = 10
               /\ (\A k \in 1..Len(spectrum) : spectrum[k] = 0) => score = 10

\* C15 as stated: for every clip of at least one sample, of even or odd
\* length, performFFT returns a spectrum of N / 2 magnitude bins, N =
\* min(1024, length), each a non-negative number computed from the first N
\* samples.
C15_AsClaimed ==
    (Called("performFFT") /\ Len(inputData.samples) >= 1) =>
        LET N == Min(1024, Len(inputData.samples))
        IN  /\ ~result.threw
            /\ Len(result.value.magnitude) = N \div 2
            /\ \A k \in 1..(N \div 2) :
                  /\ result.value.magnitude[k] >= 0
                  /\ result.value.magnitude[k]
                        = Magnitude(SubSeq(inputData.samples, 1, N), k - 1)

\* min(5, max(1, x)) on hundredths.
Clamped(hundredths) ==
    IF hundredths < 100 THEN 100
    ELSE IF hundredths > 500 THEN 500
    ELSE hundredths

\* tenths is hundredths rounded to one decimal place (halves upwards).
RoundedTo(tenths, hundredths) ==
    10 * tenths - 5 <= hundredths /\ hundredths < 10 * tenths + 5

\* C20: confidence is 0.3 * volume + 0.3 * clarity + 0.2 * pace + (1.0 if 3
\* <= tonalVariation <= 4, else 0.2 * tonalVariation), enthusiasm is 0.4 *
\* volume + 0.4 * tonalVariation + (1.0 if pace >= 4, else 0.2 * pace), each
\* clamped to [1, 5] and rounded to one decimal place; the value returned is
\* fixed by the primary scores alone.  (Scores are held times ten, the sums
\* times a hundred.)
C20_DerivedScores ==
    /\ Called("calculateConfidenceFromMetrics") =>
          LET m == inputMetrics
              sum == 3 * m.volume + 3 * m.clarity + 2 * m.pace
                     + (IF 30 <= m.tonalVariation /\ m.tonalVariation <= 40
                        THEN 100 ELSE 2 * m.tonalVariation)
          IN  /\ ~result.threw
              /\ result.value \in 10..50
              /\ RoundedTo(result.value, Clamped(sum))
    /\ Called("calculateEnthusiasmFromMetrics") =>
          LET m == inputMetrics
              sum == 4 * m.volume + 4 * m.tonalVariation
                     + (IF m.pace >= 40 THEN 100 ELSE 2 * m.pace)
          IN  /\ ~result.threw
              /\ result.value \in 10..50
              /\ RoundedTo(result.value, Clamped(sum))

\* Enthusiasm of volume 3, tonalVariation 3.2 and pace 4: 1.2 + 1.28 + 1.0
\* = 3.48, returned as 3.5.
C20_Witness ==
    /\ Called("calculateEnthusiasmFromMetrics")
    /\ inputMetrics.volume = 30
    /\ inputMetrics.tonalVariation = 32
    /\ inputMetrics.pace = 40
    /\ result.value = 35

(***************************************************************************)
(* Claims about the pitch track (specification SpecTonal).                 *)
(***************************************************************************)
TonalReturned == pc = "done" /\ callee = "calculateRealTonalVariation"

\* C16 as stated: for a clip of len samples and window size w =
\* floor(sampleRate * 0.02), calculateRealTonalVariation hands exactly
\* floor(len / w) windows to the pitch estimator, the complete
\* non-overlapping windows of the clip, the last complete one included.
C16_AsClaimed ==
    TonalReturned =>
        LET w == TonalWindowSize(inputData.sampleRate)
            n == Len(inputData.samples) \div w
        IN  /\ Len(windows) = n
            /\ \A k \in 1..n :
                  windows[k] = [start |-> (k - 1) * w, end |-> k * w]

\* The normalized autocorrelation of a window at a lag, as whole + num /
\* den: sum(window[i] * window[i + lag]) / count, count = length - lag.
NormalizedCorrelation(window, lag) ==
    WideMean(Correlation(window, lag, 1, Len(window) - lag), Len(window) - lag)

\* The lags estimatePitch tries on a window that have a term to sum.
LagRange(window, sampleRate) ==
    {lag \in (sampleRate \div 800)..(sampleRate \div 80) : lag < Len(window)}

\* C17: each iteration of the loop adds to the pitch track either nothing,
\* when no lag of the range has a strictly positive normalized
\* autocorrelation on its window, or one value sampleRate / lag, strictly
\* positive, for a lag of the range whose normalized autocorrelation is
\* positive and the maximum over the range.
C17_PitchTrack ==
    [][Len(windows') = Len(windows) + 1 =>
        LET last == windows'[Len(windows')]
            window == Slice(inputData.samples, last.start, last.end)
            sampleRate == inputData.sampleRate
            lags == LagRange(window, sampleRate)
            correlation == [lag \in lags |-> NormalizedCorrelation(window, lag)]
            positive == {lag \in lags :
                            MixedLess([whole |-> 0, num |-> 0, den |-> 1],
                                      correlation[lag])}
        IN  IF positive = {}
            THEN pitchValues' = pitchValues
            ELSE \E lag \in positive :
                    /\ lag > 0
                    /\ \A other \in lags :
                          ~MixedLess(correlation[lag], correlation[other])
                    /\ pitchValues'
                          = Append(pitchValues, [num |-> sampleRate, den |-> lag])]_vars

\* A silent window followed by a pulse train of period 20: the track holds
\* the one value 1600 / 20.
C17_Witness ==
    /\ TonalReturned
    /\ Len(windows) = 2
    /\ BestPeriod(Slice(inputData.samples, windows[1].start, windows[1].end),
                  inputData.sampleRate) = 0
    /\ pitchValues = <<[num |-> 1600, den |-> 20]>>

\* C18: calculateRealTonalVariation returns 2 for an empty pitch track and
\* otherwise the table's score of stddev / mean of the track: < 0.05 gives
\* 2, < 0.15 gives 3, < 0.25 gives 5, < 0.35 gives 4, otherwise 3; a track
\* of equal values gives 2.  With r2 = (stddev / mean)^2 = num / den the
\* limits are 1/400, 9/400, 1/16 and 49/400; a ratio equal to a limit falls
\* in either bucket next to the limit.
C18_TonalTable ==
    TonalReturned =>
        LET score == result.value
            periods == PitchPeriods(pitchValues)
            r2 == VariationSquared(periods)
        IN  /\ ~result.threw
            /\ caught = {}
            /\ Len(pitchValues) = 0 => score = 20
            /\ Len(pitchValues) > 0 =>
                 /\ 400 * r2.num < r2.den => score = 20
                 /\ 400 * r2.num = r2.den => score \in {20, 30}
                 /\ (r2.den < 400 * r2.num /\ 400 * r2.num < 9 * r2.den)
                       => score = 30
                 /\ 400 * r2.num = 9 * r2.den => score \in {30, 50}
                 /\ (9 * r2.den < 400 * r2.num /\ 16 * r2.num < r2.den)
                       => score = 50
                 /\ 16 * r2.num = r2.den => score \in {50, 40}
                 /\ (r2.den < 16 * r2.num /\ 400 * r2.num < 49 * r2.den)
                       => score = 40
                 /\ 400 * r2.num = 49 * r2.den => score \in {40, 30}
                 /\ 49 * r2.den < 400 * r2.num => score = 30
                 /\ (\A k \in 1..Len(periods) : periods[k] = periods[1])
                       => score = 20

\* A track of the pitches 1600 / 11 and 1600 / 20: stddev / mean is 9 / 31
\* and the score is 4.
C18_Witness ==
    /\ TonalReturned
    /\ PitchPeriods(pitchValues) = <<11, 20>>
    /\ result.value = 40

(***************************************************************************)
(* The claim about the sine wave (specification SpecSine).                 *)
(***************************************************************************)
\* The mean of the pitch track as a fraction: with u[k] = lcm / lag[k] the
\* mean of sampleRate / lag[k] is sampleRate * sum(u) / (n * lcm).
MeanPitch ==
    LET periods == PitchPeriods(pitchValues)
        lcm == LcmOf(periods, 1)
        u == [k \in 1..Len(periods) |-> lcm \div periods[k]]
    IN  [num |-> inputData.sampleRate * Sum(u, 1), den |-> Len(periods) * lcm]

\* C19 as stated: for the 440 Hz sine wave at 44.1 kHz for 2 seconds the
\* pitch track has a mean within 396..484 Hz and the tonalVariation score
\* is 2.
C19_AsClaimed ==
    TonalReturned =>
        /\ Len(pitchValues) > 0
        /\ FracLessEq([num |-> 396, den |-> 1], MeanPitch)
        /\ FracLessEq(MeanPitch, [num |-> 484, den |-> 1])
        /\ result.value = 20

(***************************************************************************)
(* Claims about the runs detectSpeechSegments returns (specification       *)
(* SpecSegments) and about getFrequencyRange (specification SpecScores).   *)
(***************************************************************************)

\* The window starts at which a run of loud windows is closed by a quiet
\* window inside the buffer.
ClosingStarts == {b \in WindowStarts : ClosesAt(b)}

\* C21: detectSpeechSegments starts Quiet with no segments; after each
\* window it is Active exactly when that window's energy is above 0.001; and
\* the list it returns holds exactly one segment for each maximal run of
\* loud windows that a quiet window follows inside the buffer, from the start
\* of the run's first window to the start of that quiet window, and nothing
\* else.
C21_SpeechRuns ==
    IsSpeech =>
        /\ i = 0 => (~inSpeech /\ segments = <<>>)
        /\ i > 0 => (inSpeech <=> LoudAt(i - WindowSize))
        /\ pc = "done" =>
              /\ Len(result.value) = Cardinality(ClosingStarts)
              /\ \A b \in ClosingStarts :
                     \E k \in 1..Len(result.value) :
                        result.value[k] = [start |-> RunStart(b), end |-> b]
              /\ \A k \in 1..Len(result.value) :
                     /\ result.value[k].end \in ClosingStarts
                     /\ result.value[k].start = RunStart(result.value[k].end)

\* Two loud runs were closed and returned, and a third one was still open
\* when the buffer ended.
C21_Witness ==
    /\ IsSpeech
    /\ pc = "done"
    /\ Len(result.value) = 2
    /\ inSpeech
    /\ Cardinality(ClosingStarts) = 2

\* The bins of a spectrum that lie in the band [lo, hi] Hz: bin k covers the
\* frequencies from k * sampleRate / (2 * length).  With lowMin the bin that
\* ends at lo belongs to the band, with lowMax the bin that starts at hi
\* does not: the floor of a quotient computed just below a whole number.
BandBins(spectrum, lo, hi, rate, lowMin, lowMax) ==
    {k \in 0..(Len(spectrum) - 1) :
        /\ \/ (k + 1) * rate > lo * 2 * Len(spectrum)
           \/ lowMin /\ (k + 1) * rate = lo * 2 * Len(spectrum)
        /\ \/ k * rate < hi * 2 * Len(spectrum)
           \/ ~lowMax /\ k * rate = hi * 2 * Len(spectrum)}

RECURSIVE SumOfBins(_, _)
SumOfBins(spectrum, bins) ==
    IF bins = {} THEN 0
    ELSE LET k == CHOOSE b \in bins : TRUE
         IN  spectrum[k + 1] + SumOfBins(spectrum, bins \ {k})

\* C22: getFrequencyRange returns the sum of the spectrum's bins from
\* floor(lo / binWidth) to floor(hi / binWidth), binWidth = sampleRate /
\* (2 * length), reading exactly the bins of that range that exist: for an
\* empty spectrum and for a band partly or wholly above the last bin it
\* reads no index outside the spectrum and the sum is a number, not NaN.
\* The quotients are the doubles the code computes: where binWidth is
\* exact (as it is at 44100 samples a second for every spectrum
\* calculateRealClarity passes) the floors are those of the exact
\* quotients; where binWidth is rounded, a quotient that is a whole number
\* may be computed just below it.
C22_FrequencyRange ==
    Called("getFrequencyRange") =>
        LET rounded == ~BinSizeExact(Len(inputData.spectrum), inputData.sampleRate)
        IN  /\ ~result.value.nan
            /\ result.value.reads \subseteq 0..(Len(inputData.spectrum) - 1)
            /\ \E lowMin \in {FALSE, rounded}, lowMax \in {FALSE, rounded} :
                  LET bins == BandBins(inputData.spectrum, inputData.freqMin,
                                       inputData.freqMax, inputData.sampleRate,
                                       lowMin, lowMax)
                  IN  /\ result.value.reads = bins
                      /\ result.value.energy = SumOfBins(inputData.spectrum, bins)

\* A band that starts inside the spectrum and ends above its last bin was
\* summed.
C22_Witness ==
    /\ Called("getFrequencyRange")
    /\ result.value.reads # {}
    /\ result.value.energy > 0
    /\ FrequencyBin(inputData.freqMin, Len(inputData.spectrum),
                    inputData.sampleRate, {}) > 0
    /\ FrequencyBin(inputData.freqMax, Len(inputData.spectrum),
                    inputData.sampleRate, {}) >= Len(inputData.spectrum)


(***************************************************************************)
(* The backend (src/backend/server.js, src/unnamed/part_000) and the       *)
(* helpers it imports.  Node runs one continuation at a time: a step of    *)
(* the model is the code that runs from the settling of one awaited        *)
(* promise (or the firing of one ffmpeg event) to the next await, and the  *)
(* steps of the requests in flight interleave.  The requests share the     *)
(* temp directory, the clock Date.now() reads and process.env.             *)
(*                                                                         *)
(* A JavaScript value that may be a string or undefined is a record        *)
(* [type, text].  A transcription is held as what the code reads of it:    *)
(* the number of pieces text.split(' ') gives, whether it includes '?',    *)
(* and whether it matches /excited|passionate|believe|important|amazing/i. *)
(***************************************************************************)
NoText == [words |-> 0, question |-> FALSE, emotional |-> FALSE]

Undefined == [type |-> "undefined", text |-> NoText]

Str(text) == [type |-> "string", text |-> text]

Texts ==
    {[words |-> 50, question |-> FALSE, emotional |-> FALSE],
     [words |-> 51, question |-> TRUE, emotional |-> FALSE],
     [words |-> 51, question |-> FALSE, emotional |-> TRUE],
     [words |-> 1, question |-> TRUE, emotional |-> TRUE]}

\* The text of the transcriptions when two requests are in flight.
PairTexts == {[words |-> 51, question |-> TRUE, emotional |-> FALSE]}

\* What a service's reply carries as its text property: a string, or
\* nothing.
ReplyTexts(texts) == {Undefined} \cup {Str(text) : text \in texts}

\* No outcome is pending.
NoOutcome == Return(Undefined)

\* The values Date.now() returns while they are in flight: two calls in the
\* same millisecond read the same value.
Instants == {0, 1}

\* What Date.now() can return when the clock was last read as clock.
Now(clock) == {now \in Instants : now >= clock}

\* The temporary files of convertToWav (lines 22-23).
InputPath(now) == "temp/input_" \o ToString(now) \o ".webm"

OutputPath(now) == "temp/output_" \o ToString(now) \o ".wav"

\* The temporary file of the SDK method (line 129).
HfAudioPath(now) == "temp/hf_audio_" \o ToString(now) \o ".wav"

\* The temporary file of a request (audioStorage.ts, line 590).
AudioPath(now) == "temp/audio_" \o ToString(now) \o ".webm"

\* The methods transcribeAudio is asked for.
TranscriptionMethods == {"huggingface", "offline", "openai"}

\* One method of transcribeWithHuggingFace that has settled: whether it
\* failed and the text it returned.
Attempt(method, outcome) ==
    [method |-> method, failed |-> outcome.threw,
     text |-> IF outcome.threw THEN Undefined ELSE outcome.value]

\* An async function of the request settles with outcome: the await of its
\* caller, at, has its value.
Settle(req, at, outcome) == [req EXCEPT !.pc = at, !.pending = outcome]

\* One of the three methods settles.
MethodSettles(req, method, at, outcome) ==
    [Settle(req, at, outcome) EXCEPT
        !.attempts = Append(@, Attempt(method, outcome))]

\* convertToWav(audioBuffer), lines 16-20: the executor runs to its first
\* await, fs.ensureDir.
convertToWav(req, caller) ==
    [req EXCEPT !.pc = "convertEnsureDir", !.caller = caller,
                !.pending = NoOutcome]

\* convertToWav has settled: its paths are out of scope.
Converted(req, outcome) ==
    [Settle(req, "awaitConvert", outcome) EXCEPT
        !.inputPath = None, !.outputPath = None]

\* transcribeWithHuggingFaceHTTP(audioBuffer), lines 57-67: the key check
\* and the call of convertToWav; the catch block rethrows.
transcribeWithHuggingFaceHTTP(req, key) ==
    IF ~key THEN MethodSettles(req, "http", "awaitHTTP", Throw("Error"))
    ELSE convertToWav(req, "http")

\* transcribeWithHuggingFaceSimple(audioBuffer), lines 157-175: the key
\* check and the call of fetch.
transcribeWithHuggingFaceSimple(req, key) ==
    IF ~key THEN MethodSettles(req, "simple", "awaitSimple", Throw("Error"))
    ELSE [req EXCEPT !.pc = "simpleFetch", !.pending = NoOutcome]

\* transcribeWithHuggingFace(audioBuffer), lines 101-106: method 1.
transcribeWithHuggingFace(req, key) == transcribeWithHuggingFaceHTTP(req, key)

\* transcribeWithHuggingFace has settled.
HuggingFaceSettles(req, outcome) ==
    [req EXCEPT !.pc = "awaitHuggingFace", !.huggingFace = outcome,
                !.pending = NoOutcome]

\* The catch block of the SDK method (lines 144-146) replaces every error
\* by Error('All transcription methods failed'); the finally block (lines
\* 147-149) asks fs.pathExists when tempFilePath is assigned.
SDKFinally(req, outcome) ==
    LET tried == [req EXCEPT
                     !.attempts = Append(@, Attempt("sdk", outcome)),
                     !.pending = outcome]
    IN  IF req.hfTempFilePath # None
        THEN [tried EXCEPT !.pc = "sdkPathExists"]
        ELSE HuggingFaceSettles(tried, outcome)

SDKCatch(req) == SDKFinally(req, Throw("All transcription methods failed"))

\* transcribeAudio's try/catch around its switch (lines 224-235): a value is
\* returned as it is; the catch block logs and ends without a return, so
\* the promise resolves to undefined.
transcribeAudioCatch(outcome) ==
    IF outcome.threw THEN Return(Undefined) ELSE outcome

\* transcribeAudio has settled.
Transcribed(req, outcome) ==
    [req EXCEPT !.pc = "transcribed",
                !.transcription = transcribeAudioCatch(outcome),
                !.huggingFace = NoOutcome, !.attempts = <<>>,
                !.hfTempFilePath = None]

\* transcribeAudio(audioBuffer, method), lines 221-231: the switch and what
\* runs of its case before the first await.
transcribeAudio(req, key) ==
    IF req.method = "huggingface" THEN transcribeWithHuggingFace(req, key)
    ELSE Transcribed(req, Throw("Unknown transcription method"))

(***************************************************************************)
(* analyzeWithGemini (server.js, lines 152-385).  A score is held times    *)
(* ten as Num(v), or is NaN.  A score of Gemini's JSON is a record [type,  *)
(* value]: a number (times ten), a string that is not a number, or         *)
(* undefined when the property or its section is missing.                  *)
(***************************************************************************)
Num(v) == [nan |-> FALSE, value |-> v]

NaN == [nan |-> TRUE, value |-> 0]

JsonUndefined == [type |-> "undefined", value |-> 0]

JsonNumber(v) == [type |-> "number", value |-> v]

JsonWords == [type |-> "string", value |-> 0]

JsonScores ==
    {JsonUndefined, JsonWords, JsonNumber(0), JsonNumber(30), JsonNumber(45),
     JsonNumber(70), JsonNumber(-20)}

\* analysis.x?.score || 3.
ScoreOrThree(score) ==
    IF score.type = "undefined" \/ (score.type = "number" /\ score.value = 0)
    THEN JsonNumber(30)
    ELSE score

\* Math.max(1, Math.min(5, score)): Math.min of a string that is not a
\* number is NaN, and so is Math.max of NaN.
ClampScore(score) ==
    IF score.type = "number" THEN Num(Max(10, Min(50, score.value)))
    ELSE NaN

Section(score) == [score |-> score]

\* normalizeAnalysis(analysis), the three scores of its result.
normalizeAnalysis(analysis) ==
    [storytelling |-> Section(ClampScore(ScoreOrThree(analysis.storytelling))),
     audienceConnection |->
         Section(ClampScore(ScoreOrThree(analysis.audienceConnection))),
     persuasiveness |->
         Section(ClampScore(ScoreOrThree(analysis.persuasiveness)))]

\* The loop of extractInsightsFromText: the numbers the score pattern
\* captures, in order, of which those from 1 to 5 are kept.
RECURSIVE InRangeScores(_)
InRangeScores(matches) ==
    IF matches = <<>> THEN <<>>
    ELSE IF Head(matches) >= 1 /\ Head(matches) <= 5
    THEN <<Head(matches)>> \o InRangeScores(Tail(matches))
    ELSE InRangeScores(Tail(matches))

\* scores[k] || 3 (k counted from 0).
ScoreAtOrThree(scores, k) ==
    IF k < Len(scores) THEN Num(10 * scores[k + 1]) ELSE Num(30)

\* extractInsightsFromText(responseText).
extractInsightsFromText(responseText) ==
    LET scores == InRangeScores(responseText.matches)
    IN  [storytelling |-> Section(ScoreAtOrThree(scores, 0)),
         audienceConnection |-> Section(ScoreAtOrThree(scores, 1)),
         persuasiveness |-> Section(ScoreAtOrThree(scores, 2))]

\* parseGeminiResponse(responseText): a response text is [json, analysis,
\* matches]: json is "valid" when the text from its first { to its last }
\* parses ("invalid" when it does not, "none" when there are no braces),
\* analysis is what it parses to, matches are the numbers the score pattern
\* of extractInsightsFromText captures in the text.
parseGeminiResponse(responseText) ==
    IF responseText.json = "valid"
    THEN normalizeAnalysis(responseText.analysis)
    ELSE extractInsightsFromText(responseText)

\* getFallbackAnalysis(transcriptionText, audioMetrics);
\* transcriptionText.split throws when the transcription is not a string.
getFallbackAnalysis(transcriptionText) ==
    IF transcriptionText.type # "string" THEN Throw("TypeError")
    ELSE LET wordCount == transcriptionText.text.words
             hasQuestions == transcriptionText.text.question
             hasEmotionalWords == transcriptionText.text.emotional
         IN  Return(
                [storytelling |-> Section(Num(IF wordCount > 50 THEN 40 ELSE 30)),
                 audienceConnection |->
                     Section(Num(IF hasQuestions THEN 40 ELSE 30)),
                 persuasiveness |->
                     Section(Num(IF hasEmotionalWords THEN 40 ELSE 30))])


\* createAnalysisPrompt(transcriptionText, audioMetrics), lines 205-254:
\* the prompt holds the transcription and all seven metrics.
createAnalysisPrompt(transcriptionText, audioMetrics) ==
    [transcription |-> transcriptionText,
     pace |-> audioMetrics.pace,
     volume |-> audioMetrics.volume,
     clarity |-> audioMetrics.clarity,
     pauseUsage |-> audioMetrics.pauseDuration,
     tonalVariation |-> audioMetrics.tonalVariation,
     confidence |-> audioMetrics.confidence,
     enthusiasm |-> audioMetrics.enthusiasm]

NoPrompt == createAnalysisPrompt(Undefined, DefaultMetrics)

\* analyzeWithGemini has settled.
GeminiSettles(req, outcome) == Settle(req, "awaitGemini", outcome)

\* The fallback of analyzeWithGemini (lines 156, 191 and 198).
GeminiFallback(req) ==
    GeminiSettles(req, getFallbackAnalysis(req.transcription.value))

\* analyzeWithGemini(transcriptionText, audioMetrics), lines 152-178: the
\* key check, whose fallback is computed inside the try block, then the
\* prompt and the call of fetch with it.
analyzeWithGemini(req, transcriptionText, audioMetrics, key) ==
    IF ~key THEN GeminiFallback(req)
    ELSE [req EXCEPT
             !.pc = "geminiFetch",
             !.prompt = createAnalysisPrompt(transcriptionText, audioMetrics)]

(***************************************************************************)
(* The temporary file of a request (audioStorage.ts, lines 586-606).       *)
(***************************************************************************)
\* A call of cleanupTempFile: the path, whether the call has returned, and
\* whether it threw.
Cleanup(filePath, returned, threw) ==
    [filePath |-> filePath, returned |-> returned, threw |-> threw]

\* A mutant of cleanupTempFile: no catch block.
cleanupTempFileNoCatch(body) == body

\* cleanupTempFile(filePath), its try/catch around the outcome of its body
\* (lines 598-605): a rejection of fs.remove is caught and logged.
cleanupTempFile(body) ==
    IF body.threw THEN Return(Undefined) ELSE body

\* cleanupTempFile has settled; the handler awaits it at line 103.
CleanedUp(req, body) ==
    [req EXCEPT
        !.pc = "awaitCleanup",
        !.cleanups[Len(req.cleanups)] =
            Cleanup(@.filePath, TRUE, cleanupTempFile(body).threw)]

(***************************************************************************)
(* The handler of POST /api/evaluate-pitch (server.js, lines 36-106).      *)
(***************************************************************************)
\* The finally block (lines 100-105): cleanupTempFile is called when
\* tempFilePath is assigned, and runs to its first await, fs.pathExists.
HandlerFinally(req) ==
    IF req.tempFilePath # None
    THEN [req EXCEPT
             !.pc = "cleanupPathExists",
             !.cleanups = Append(@, Cleanup(req.tempFilePath, FALSE, FALSE))]
    ELSE [req EXCEPT !.pc = "done"]

\* The catch block (lines 97-99) logs the error; the finally block follows.
HandlerCatch(req) == HandlerFinally([req EXCEPT !.caughtError = TRUE])

\* The audioMetrics analyzeAudioProperties resolves to: the five primary
\* scores with the two scores derived from them.
WithDerivedScores(primary) ==
    LET withConfidence ==
            [pace |-> primary.pace, volume |-> primary.volume,
             clarity |-> primary.clarity,
             pauseDuration |-> primary.pauseDuration,
             tonalVariation |-> primary.tonalVariation,
             confidence |-> calculateConfidenceFromMetrics(primary),
             enthusiasm |-> 0]
    IN  [withConfidence EXCEPT
            !.enthusiasm = calculateEnthusiasmFromMetrics(withConfidence)]

\* A mutant of CombineResult: pause usage is a sixth delivery score.
CombineResultWithPauses(audioMetrics, contentAnalysis) ==
    [delivery |-> [pace |-> audioMetrics.pace,
                   tone |-> audioMetrics.tonalVariation,
                   clarity |-> audioMetrics.clarity,
                   pauseUsage |-> audioMetrics.pauseDuration,
                   confidence |-> audioMetrics.confidence,
                   enthusiasm |-> audioMetrics.enthusiasm],
     engagement |-> [storytelling |-> contentAnalysis.storytelling.score,
                     audienceConnection |->
                         contentAnalysis.audienceConnection.score,
                     persuasiveness |-> contentAnalysis.persuasiveness.score]]

\* Step 5 of the handler (lines 63-75): the delivery and the engagement
\* scores of the result it combines.
CombineResult(audioMetrics, contentAnalysis) ==
    [delivery |-> [pace |-> audioMetrics.pace,
                   tone |-> audioMetrics.tonalVariation,
                   clarity |-> audioMetrics.clarity,
                   confidence |-> audioMetrics.confidence,
                   enthusiasm |-> audioMetrics.enthusiasm],
     engagement |-> [storytelling |-> contentAnalysis.storytelling.score,
                     audienceConnection |->
                         contentAnalysis.audienceConnection.score,
                     persuasiveness |-> contentAnalysis.persuasiveness.score]]

\* Object.values(scores).reduce((a, b) => a + b, 0) over the properties
\* named in keys.
RECURSIVE SumOfValues(_, _)
SumOfValues(scores, keys) ==
    IF keys = {} THEN 0
    ELSE LET key == CHOOSE k \in keys : TRUE
         IN  scores[key] + SumOfValues(scores, keys \ {key})

\* overallScore = Math.round((deliveryAvg + engagementAvg) / 2 * 2) (lines
\* 83-85), each average being the sum of Object.values over their number.
\* The scores are held times ten, so with nd delivery and ne engagement
\* scores deliveryAvg + engagementAvg is
\* (ne * deliverySum + nd * engagementSum) / (10 * nd * ne).  A sum that is
\* exactly a half is computed with a rounding error and is rounded to
\* either side; NaN in a score makes the result NaN.
OverallScore(combined, rounding) ==
    LET d == combined.delivery
        e == combined.engagement
        nd == Cardinality(DOMAIN d)
        ne == Cardinality(DOMAIN e)
        deliverySum == SumOfValues(d, DOMAIN d)
        engagementSum == SumOfValues([k \in DOMAIN e |-> e[k].value], DOMAIN e)
        total == ne * deliverySum + nd * engagementSum
        unit == 10 * nd * ne
        whole == total \div unit
        rest == total % unit
    IN  IF \E k \in DOMAIN e : e[k].nan
        THEN NaN
        ELSE IF 2 * rest > unit \/ (2 * rest = unit /\ rounding >= 0)
        THEN Num(whole + 1)
        ELSE Num(whole)

\* The primary scores of the requests: values of each score's table.
RequestScores ==
    [pace : {20, 50}, volume : {40}, clarity : {10, 38},
     pauseDuration : {20, 50}, tonalVariation : {30, 50}]

RequestMetrics == {WithDerivedScores(primary) : primary \in RequestScores}

\* The primary scores when two requests are in flight.
PairScores ==
    [pace : {50}, volume : {40}, clarity : {38},
     pauseDuration : {20, 50}, tonalVariation : {30}]

PairMetrics == {WithDerivedScores(primary) : primary \in PairScores}

\* The texts Gemini answers with.  MaxMatches bounds the numbers the score
\* pattern finds in a text that is not JSON.
MaxMatches == 3

NoAnalysis ==
    [storytelling |-> JsonUndefined, audienceConnection |-> JsonUndefined,
     persuasiveness |-> JsonUndefined]

GeminiAnalyses ==
    [storytelling : JsonScores,
     audienceConnection : {JsonUndefined, JsonNumber(45)},
     persuasiveness : {JsonNumber(20)}]

GeminiTexts ==
    {[json |-> "valid", analysis |-> analysis, matches |-> <<>>] :
        analysis \in GeminiAnalyses}
    \cup {[json |-> "none", analysis |-> NoAnalysis, matches |-> matches] :
            matches \in SeqsUpTo({2, 7}, MaxMatches)}
    \cup {[json |-> "invalid", analysis |-> NoAnalysis, matches |-> <<4, 0>>]}

\* The texts Gemini answers with when two requests are in flight.
PairGeminiTexts ==
    {[json |-> "valid", matches |-> <<>>,
      analysis |-> [storytelling |-> storytelling,
                    audienceConnection |-> JsonUndefined,
                    persuasiveness |-> JsonNumber(20)]] :
        storytelling \in {JsonWords, JsonNumber(45)}}

NoContentAnalysis ==
    [storytelling |-> Section(NaN), audienceConnection |-> Section(NaN),
     persuasiveness |-> Section(NaN)]

\* A request as the handler receives it, or a call of transcribeAudio on
\* its own.
NewRequest(entry, at, file, method) ==
    [entry |-> entry, pc |-> at, file |-> file, method |-> method,
     tempFilePath |-> None, caller |-> None, inputPath |-> None,
     outputPath |-> None, hfTempFilePath |-> None,
     pending |-> Return(Undefined), attempts |-> <<>>,
     huggingFace |-> Return(Undefined), transcription |-> Return(Undefined),
     audioMetrics |-> DefaultMetrics, prompt |-> NoPrompt,
     contentAnalysis |-> NoContentAnalysis,
     responses |-> <<>>, cleanups |-> <<>>, caughtError |-> FALSE]

NewRequests ==
    {NewRequest("handler", "received", file, "huggingface") :
        file \in BOOLEAN}
    \cup {NewRequest("transcribeAudio", "transcribeAudio", TRUE, method) :
            method \in TranscriptionMethods}

\* The requests in flight: one request, or two that the server received
\* together, the second of which carries a file.
RequestsInFlight ==
    {<<first>> : first \in NewRequests}
    \cup {<<first, NewRequest("handler", "received", TRUE, "huggingface")>> :
            first \in {NewRequest("handler", "received", TRUE, "huggingface"),
                       NewRequest("transcribeAudio", "transcribeAudio", TRUE,
                                  "huggingface")}}

\* process.env: whether each key is configured.
Environments == [HUGGINGFACE_API_KEY : BOOLEAN, GEMINI_API_KEY : BOOLEAN]

RequestInit ==
    /\ pc = "request"
    /\ audioBuffer = None
    /\ result = None
    /\ caught = {}
    /\ samples = <<>>
    /\ detector = None
    /\ i = 0
    /\ inSpeech = FALSE
    /\ segmentStart = 0
    /\ inSilence = FALSE
    /\ silenceStart = 0
    /\ segments = <<>>
    /\ inputData = None
    /\ inputMetrics = None
    /\ pitchValues = <<>>
    /\ windows = <<>>
    /\ callee = None
    /\ store = None
    /\ \E env \in Environments :
          \E requests \in RequestsInFlight :
             server = [files |-> {}, clock |-> 0, env |-> env,
                       requests |-> requests]

\* The ids of the requests in flight.
RequestIds == DOMAIN server.requests

\* Whether one request is in flight.  With two the inputs are drawn from
\* smaller sets.
Alone == Len(server.requests) = 1

\* The texts the transcription services answer with.
TranscribedTexts == ReplyTexts(IF Alone THEN Texts ELSE PairTexts)

\* The metrics analyzeAudioProperties computes.
ComputedMetrics == IF Alone THEN RequestMetrics ELSE PairMetrics

\* What Gemini answers to a prompt: the model does not know Gemini, so
\* every text is a possible answer to every prompt.
GeminiAnswers(prompt) == IF Alone THEN GeminiTexts ELSE PairGeminiTexts

\* A step of request r: what it is afterwards, and the files and the clock.
ServerStep(r, req, files, clock) ==
    /\ server' = [server EXCEPT !.requests[r] = req, !.files = files,
                                !.clock = clock]
    /\ UNCHANGED <<pc, audioBuffer, result, caught, store>>
    /\ UNCHANGED detectorVars
    /\ UNCHANGED scoreVars

\* A step of request r that leaves the files and the clock.
RequestStep(r, req) == ServerStep(r, req, server.files, server.clock)

\* Request r waits at the await named at.
At(r, at) == server.requests[r].pc = at

\* Lines 36-47 and saveTemporaryAudioFile to its first await (line 588):
\* without a file the handler answers 400 and returns.
ReceiveRequest(r) ==
    /\ At(r, "received")
    /\ LET req == server.requests[r]
       IN  IF ~req.file
           THEN RequestStep(r, [req EXCEPT
                    !.pc = "done",
                    !.responses = Append(@, [status |-> 400, success |-> FALSE,
                                             result |-> None,
                                             overallScore |-> NaN])])
           ELSE RequestStep(r, [req EXCEPT !.pc = "saveEnsureDir"])

\* saveTemporaryAudioFile, lines 588-591: fs.ensureDir settles; the path is
\* named after Date.now() and fs.writeFile is called.
SaveEnsureDir(r) ==
    /\ At(r, "saveEnsureDir")
    /\ LET req == server.requests[r]
       IN  \E rejected \in BOOLEAN :
              IF rejected
              THEN RequestStep(r, Settle(req, "awaitSave", Throw("Error")))
              ELSE \E now \in Now(server.clock) :
                      ServerStep(r,
                          [req EXCEPT !.pc = "saveWriteFile",
                                      !.pending = Return(AudioPath(now))],
                          server.files, now)

\* saveTemporaryAudioFile, lines 591-593: fs.writeFile settles.
SaveWriteFile(r) ==
    /\ At(r, "saveWriteFile")
    /\ LET req == server.requests[r]
       IN  \E rejected \in BOOLEAN :
              IF rejected
              THEN RequestStep(r, Settle(req, "awaitSave", Throw("Error")))
              ELSE ServerStep(r, [req EXCEPT !.pc = "awaitSave"],
                              server.files \cup {req.pending.value},
                              server.clock)

\* Lines 47-51: the await of saveTemporaryAudioFile has its value;
\* tempFilePath is assigned and transcribeAudio is called.
HandlerSaved(r) ==
    /\ At(r, "awaitSave")
    /\ LET req == server.requests[r]
       IN  IF req.pending.threw
           THEN RequestStep(r, HandlerCatch(
                                   [req EXCEPT !.pending = NoOutcome]))
           ELSE RequestStep(r, transcribeAudio(
                    [req EXCEPT !.tempFilePath = req.pending.value,
                                !.pending = NoOutcome],
                    server.env.HUGGINGFACE_API_KEY))

\* A call of transcribeAudio on its own.
TranscribeAudio(r) ==
    /\ At(r, "transcribeAudio")
    /\ RequestStep(r, transcribeAudio(server.requests[r],
                                      server.env.HUGGINGFACE_API_KEY))

\* convertToWav, lines 20-26: fs.ensureDir settles; the two paths are named
\* after Date.now(), read twice, and fs.writeFile is called.
ConvertEnsureDir(r) ==
    /\ At(r, "convertEnsureDir")
    /\ LET req == server.requests[r]
       IN  \E rejected \in BOOLEAN :
              IF rejected
              THEN RequestStep(r, Converted(req, Throw("Error")))
              ELSE \E first \in Now(server.clock) :
                      \E second \in Now(first) :
                         ServerStep(r,
                             [req EXCEPT !.pc = "convertWriteFile",
                                         !.inputPath = InputPath(first),
                                         !.outputPath = OutputPath(second)],
                             server.files, second)

\* convertToWav, lines 26-48: fs.writeFile settles and ffmpeg is started.
ConvertWriteFile(r) ==
    /\ At(r, "convertWriteFile")
    /\ LET req == server.requests[r]
       IN  \E rejected \in BOOLEAN :
              IF rejected
              THEN RequestStep(r, Converted(req, Throw("Error")))
              ELSE ServerStep(r, [req EXCEPT !.pc = "ffmpeg"],
                              server.files \cup {req.inputPath},
                              server.clock)

\* convertToWav, lines 34-36 and 45-47: ffmpeg emits 'error', or 'end'
\* with or without having written the output; the handler of 'end' calls
\* fs.readFile.
Ffmpeg(r) ==
    /\ At(r, "ffmpeg")
    /\ LET req == server.requests[r]
       IN  \E event \in {"error", "end"} :
              IF event = "error"
              THEN RequestStep(r, Converted(req, Throw("Error")))
              ELSE \E written \in BOOLEAN :
                      ServerStep(r, [req EXCEPT !.pc = "convertReadFile"],
                                 IF written
                                 THEN server.files \cup {req.outputPath}
                                 ELSE server.files,
                                 server.clock)

\* convertToWav, lines 36-38: fs.readFile settles, rejecting when the
\* output is not on disk; fs.remove of the input is called.
ConvertReadFile(r) ==
    /\ At(r, "convertReadFile")
    /\ LET req == server.requests[r]
       IN  \E rejected \in BOOLEAN :
              IF rejected \/ req.outputPath \notin server.files
              THEN RequestStep(r, Converted(req, Throw("Error")))
              ELSE RequestStep(r, [req EXCEPT !.pc = "convertRemoveInput"])

\* convertToWav, lines 38-39: fs.remove of the input settles; fs.remove of
\* the output is called.
ConvertRemoveInput(r) ==
    /\ At(r, "convertRemoveInput")
    /\ LET req == server.requests[r]
       IN  \E rejected \in BOOLEAN :
              IF rejected
              THEN RequestStep(r, Converted(req, Throw("Error")))
              ELSE ServerStep(r, [req EXCEPT !.pc = "convertRemoveOutput"],
                              server.files \ {req.inputPath}, server.clock)

\* convertToWav, lines 39-40: fs.remove of the output settles and the
\* promise is resolved.
ConvertRemoveOutput(r) ==
    /\ At(r, "convertRemoveOutput")
    /\ LET req == server.requests[r]
       IN  \E rejected \in BOOLEAN :
              IF rejected
              THEN RequestStep(r, Converted(req, Throw("Error")))
              ELSE ServerStep(r, Converted(req, Return("wavBuffer")),
                              server.files \ {req.outputPath}, server.clock)

\* transcribeWithHuggingFaceHTTP, lines 67-79: the await of convertToWav
\* has its value and fetch is called.
HTTPConverted(r) ==
    /\ At(r, "awaitConvert")
    /\ server.requests[r].caller = "http"
    /\ LET req == [server.requests[r] EXCEPT !.caller = None]
       IN  IF req.pending.threw
           THEN RequestStep(r, MethodSettles(req, "http", "awaitHTTP",
                                             req.pending))
           ELSE RequestStep(r, [req EXCEPT !.pc = "httpFetch",
                                           !.pending = NoOutcome])

\* Lines 69-86 and 166-182: fetch settles; the text of a response that is
\* not ok is awaited, and the JSON of one that is.
Fetched(r, req, method, await, text, json) ==
    \E response \in {"rejects", "not ok", "ok"} :
       IF response = "rejects"
       THEN RequestStep(r, MethodSettles(req, method, await, Throw("Error")))
       ELSE IF response = "not ok"
       THEN RequestStep(r, [req EXCEPT !.pc = text])
       ELSE RequestStep(r, [req EXCEPT !.pc = json])

\* Lines 82-83 and 178-179: response.text() settles and the method throws.
TextRead(r, req, method, await) ==
    RequestStep(r, MethodSettles(req, method, await, Throw("Error")))

\* Lines 86-88 and 182-184: response.json() settles; result.text.substring
\* throws when the result has no text.
JsonRead(r, req, method, await) ==
    \E rejected \in BOOLEAN :
       IF rejected
       THEN RequestStep(r, MethodSettles(req, method, await, Throw("Error")))
       ELSE \E text \in TranscribedTexts :
               RequestStep(r, MethodSettles(req, method, await,
                   IF text.type = "string" THEN Return(text)
                   ELSE Throw("TypeError")))

\* transcribeWithHuggingFaceHTTP, lines 69-86.
HTTPFetch(r) ==
    /\ At(r, "httpFetch")
    /\ Fetched(r, server.requests[r], "http", "awaitHTTP", "httpText",
               "httpJson")

\* transcribeWithHuggingFaceHTTP, lines 82-83 and 90-93.
HTTPText(r) ==
    /\ At(r, "httpText")
    /\ TextRead(r, server.requests[r], "http", "awaitHTTP")

\* transcribeWithHuggingFaceHTTP, lines 86-93.
HTTPJson(r) ==
    /\ At(r, "httpJson")
    /\ JsonRead(r, server.requests[r], "http", "awaitHTTP")

\* transcribeWithHuggingFace, lines 106-112: the await of method 1 has its
\* value; a text is returned, a failure calls method 2.
HTTPReturned(r) ==
    /\ At(r, "awaitHTTP")
    /\ LET req == server.requests[r]
       IN  IF req.pending.threw
           THEN RequestStep(r, transcribeWithHuggingFaceSimple(req,
                                   server.env.HUGGINGFACE_API_KEY))
           ELSE RequestStep(r, HuggingFaceSettles(req, req.pending))

\* transcribeWithHuggingFaceSimple, lines 166-182.
SimpleFetch(r) ==
    /\ At(r, "simpleFetch")
    /\ Fetched(r, server.requests[r], "simple", "awaitSimple", "simpleText",
               "simpleJson")

\* transcribeWithHuggingFaceSimple, lines 178-179 and 186-189.
SimpleText(r) ==
    /\ At(r, "simpleText")
    /\ TextRead(r, server.requests[r], "simple", "awaitSimple")

\* transcribeWithHuggingFaceSimple, lines 182-189.
SimpleJson(r) ==
    /\ At(r, "simpleJson")
    /\ JsonRead(r, server.requests[r], "simple", "awaitSimple")

\* transcribeWithHuggingFace, lines 112-124: the await of method 2 has its
\* value; a failure starts method 3 with tempFilePath = null and the call
\* of convertToWav.
SimpleReturned(r) ==
    /\ At(r, "awaitSimple")
    /\ LET req == server.requests[r]
       IN  IF req.pending.threw
           THEN RequestStep(r, convertToWav(req, "sdk"))
           ELSE RequestStep(r, HuggingFaceSettles(req, req.pending))

\* Method 3, lines 124-128: the await of convertToWav has its value and
\* fs.ensureDir is called.
SDKConverted(r) ==
    /\ At(r, "awaitConvert")
    /\ server.requests[r].caller = "sdk"
    /\ LET req == [server.requests[r] EXCEPT !.caller = None]
       IN  IF req.pending.threw
           THEN RequestStep(r, SDKCatch(req))
           ELSE RequestStep(r, [req EXCEPT !.pc = "sdkEnsureDir",
                                           !.pending = NoOutcome])

\* Method 3, lines 128-130: fs.ensureDir settles; tempFilePath is named
\* after Date.now() and fs.writeFile is called.
SDKEnsureDir(r) ==
    /\ At(r, "sdkEnsureDir")
    /\ LET req == server.requests[r]
       IN  \E rejected \in BOOLEAN :
              IF rejected
              THEN RequestStep(r, SDKCatch(req))
              ELSE \E now \in Now(server.clock) :
                      ServerStep(r,
                          [req EXCEPT !.pc = "sdkWriteFile",
                                      !.hfTempFilePath = HfAudioPath(now)],
                          server.files, now)

\* Method 3, lines 130-139: fs.writeFile settles; the stream is created and
\* hf.automaticSpeechRecognition is called.
SDKWriteFile(r) ==
    /\ At(r, "sdkWriteFile")
    /\ LET req == server.requests[r]
       IN  \E rejected \in BOOLEAN :
              IF rejected
              THEN RequestStep(r, SDKCatch(req))
              ELSE ServerStep(r, [req EXCEPT !.pc = "sdkCall"],
                              server.files \cup {req.hfTempFilePath},
                              server.clock)

\* Method 3, lines 136-149: the SDK call settles; response.text.substring
\* throws when the response has no text.
SDKCall(r) ==
    /\ At(r, "sdkCall")
    /\ LET req == server.requests[r]
       IN  \E rejected \in BOOLEAN :
              IF rejected
              THEN RequestStep(r, SDKCatch(req))
              ELSE \E text \in TranscribedTexts :
                      IF text.type = "string"
                      THEN RequestStep(r, SDKFinally(req, Return(text)))
                      ELSE RequestStep(r, SDKCatch(req))

\* Method 3, lines 149-150: fs.pathExists settles (it never rejects);
\* fs.remove is called when the file is on disk.
SDKPathExists(r) ==
    /\ At(r, "sdkPathExists")
    /\ LET req == server.requests[r]
       IN  IF req.hfTempFilePath \in server.files
           THEN RequestStep(r, [req EXCEPT !.pc = "sdkRemove"])
           ELSE RequestStep(r, HuggingFaceSettles(req, req.pending))

\* Method 3, lines 150-152: fs.remove settles; its rejection replaces the
\* pending outcome of the try and catch blocks.
SDKRemove(r) ==
    /\ At(r, "sdkRemove")
    /\ LET req == server.requests[r]
       IN  \E rejected \in BOOLEAN :
              IF rejected
              THEN RequestStep(r, HuggingFaceSettles(req, Throw("RemoveError")))
              ELSE ServerStep(r, HuggingFaceSettles(req, req.pending),
                              server.files \ {req.hfTempFilePath},
                              server.clock)

\* transcribeAudio, lines 227-235: the await of transcribeWithHuggingFace
\* has its value.
HuggingFaceReturned(r) ==
    /\ At(r, "awaitHuggingFace")
    /\ LET req == server.requests[r]
       IN  RequestStep(r, Transcribed(req, req.huggingFace))

\* Lines 51-56 and analyzeAudioProperties to its first await
\* (audioStorage.ts, line 151): transcription.substring throws when the
\* transcription is not a string.
HandlerTranscribed(r) ==
    /\ At(r, "transcribed")
    /\ server.requests[r].entry = "handler"
    /\ LET req == server.requests[r]
       IN  IF req.transcription.value.type # "string"
           THEN RequestStep(r, HandlerCatch(req))
           ELSE RequestStep(r, [req EXCEPT !.pc = "analyzeDecoded"])

\* analyzeAudioProperties (audioStorage.ts, lines 151-155 and 170-182): the
\* await of processAudioBuffer has its value; a rejection is caught and the
\* default metrics are returned.
AudioDecoded(r) ==
    /\ At(r, "analyzeDecoded")
    /\ LET req == server.requests[r]
       IN  \E rejected \in BOOLEAN :
              IF rejected
              THEN RequestStep(r, [req EXCEPT !.pc = "awaitAnalyze",
                                              !.audioMetrics = DefaultMetrics])
              ELSE RequestStep(r, [req EXCEPT !.pc = "analyzePaced"])

\* analyzeAudioProperties (audioStorage.ts, lines 155-169): the await of
\* the pace has its value and the metrics are returned.
AudioPaced(r) ==
    /\ At(r, "analyzePaced")
    /\ LET req == server.requests[r]
       IN  \E audioMetrics \in ComputedMetrics :
              RequestStep(r, [req EXCEPT !.pc = "awaitAnalyze",
                                         !.audioMetrics = audioMetrics])

\* Lines 56-60: the await of analyzeAudioProperties has its value and
\* analyzeWithGemini is called.
HandlerAnalyzed(r) ==
    /\ At(r, "awaitAnalyze")
    /\ LET req == server.requests[r]
       IN  RequestStep(r, analyzeWithGemini(req, req.transcription.value,
                              req.audioMetrics, server.env.GEMINI_API_KEY))

\* analyzeWithGemini, lines 163-180 and 194-199: fetch settles.
GeminiFetch(r) ==
    /\ At(r, "geminiFetch")
    /\ LET req == server.requests[r]
       IN  \E rejected \in BOOLEAN :
              IF rejected
              THEN RequestStep(r, GeminiFallback(req))
              ELSE RequestStep(r, [req EXCEPT !.pc = "geminiJson"])

\* analyzeWithGemini, lines 180-199: response.json() settles; the text of
\* the first candidate is parsed, and without one the fallback is returned.
GeminiJson(r) ==
    /\ At(r, "geminiJson")
    /\ LET req == server.requests[r]
       IN  \E data \in {"rejects", "no text", "text"} :
              IF data = "text"
              THEN \E analysisText \in GeminiAnswers(req.prompt) :
                      RequestStep(r, GeminiSettles(req,
                          Return(parseGeminiResponse(analysisText))))
              ELSE RequestStep(r, GeminiFallback(req))

\* A request that was answered with success.
Succeeded(req) ==
    /\ Len(req.responses) = 1
    /\ req.responses[1].status = 200

\* Lines 60-103: the await of analyzeWithGemini has its value; the result
\* is combined and sent, and the finally block follows.  The arithmetic of
\* overallScore is a function of its operands: a request with the operands
\* of one answered before gets the score of that one.
Respond(r) ==
    /\ At(r, "awaitGemini")
    /\ LET req == server.requests[r]
       IN  IF req.pending.threw
           THEN RequestStep(r, HandlerCatch(req))
           ELSE \E rounding \in Roundings :
                   \E analysed \in {[req EXCEPT
                                       !.contentAnalysis = req.pending.value,
                                       !.pending = NoOutcome]} :
                      \E combined \in {CombineResult(analysed.audioMetrics,
                                                     analysed.contentAnalysis)} :
                         /\ \A q \in RequestIds \ {r} :
                               (/\ Succeeded(server.requests[q])
                                /\ server.requests[q].responses[1].result
                                       = combined)
                               => server.requests[q].responses[1].overallScore
                                    = OverallScore(combined, rounding)
                         /\ RequestStep(r, HandlerFinally([analysed EXCEPT
                                !.responses = Append(@,
                                    [status |-> 200, success |-> TRUE,
                                     result |-> combined,
                                     overallScore |->
                                         OverallScore(combined, rounding)])]))

\* cleanupTempFile (audioStorage.ts, lines 599-600): fs.pathExists settles;
\* fs.remove is called when the file is on disk.
CleanupPathExists(r) ==
    /\ At(r, "cleanupPathExists")
    /\ LET req == server.requests[r]
       IN  IF req.tempFilePath \in server.files
           THEN RequestStep(r, [req EXCEPT !.pc = "cleanupRemove"])
           ELSE RequestStep(r, CleanedUp(req, Return(Undefined)))

\* cleanupTempFile (audioStorage.ts, lines 600-605): fs.remove settles.
CleanupRemove(r) ==
    /\ At(r, "cleanupRemove")
    /\ LET req == server.requests[r]
       IN  \E rejected \in BOOLEAN :
              IF rejected
              THEN RequestStep(r, CleanedUp(req, Throw("RemoveError")))
              ELSE ServerStep(r, CleanedUp(req, Return(Undefined)),
                              server.files \ {req.tempFilePath},
                              server.clock)

\* Lines 103-106: the await of cleanupTempFile has its value and the
\* handler ends.
HandlerCleaned(r) ==
    /\ At(r, "awaitCleanup")
    /\ RequestStep(r, [server.requests[r] EXCEPT !.pc = "done"])

\* convertToWav (lines 16-54), step by step.
ConvertToWav(r) ==
    \/ ConvertEnsureDir(r)
    \/ ConvertWriteFile(r)
    \/ Ffmpeg(r)
    \/ ConvertReadFile(r)
    \/ ConvertRemoveInput(r)
    \/ ConvertRemoveOutput(r)

\* transcribeWithHuggingFace, method 1 (lines 105-107 and 57-94).
TryHTTP(r) ==
    \/ HTTPConverted(r)
    \/ HTTPFetch(r)
    \/ HTTPText(r)
    \/ HTTPJson(r)
    \/ HTTPReturned(r)

\* Method 2 (lines 111-113 and 157-190).
TrySimple(r) ==
    \/ SimpleFetch(r)
    \/ SimpleText(r)
    \/ SimpleJson(r)
    \/ SimpleReturned(r)

\* Method 3 (lines 117-152).
TrySDK(r) ==
    \/ SDKConverted(r)
    \/ SDKEnsureDir(r)
    \/ SDKWriteFile(r)
    \/ SDKCall(r)
    \/ SDKPathExists(r)
    \/ SDKRemove(r)

\* The steps in which a call to the outside settles: the file system,
\* ffmpeg, fetch, a response body, the SDK.
OutsideSettles(r) ==
    \/ SaveEnsureDir(r)
    \/ SaveWriteFile(r)
    \/ ConvertToWav(r)
    \/ HTTPFetch(r)
    \/ HTTPText(r)
    \/ HTTPJson(r)
    \/ SimpleFetch(r)
    \/ SimpleText(r)
    \/ SimpleJson(r)
    \/ SDKEnsureDir(r)
    \/ SDKWriteFile(r)
    \/ SDKCall(r)
    \/ SDKPathExists(r)
    \/ SDKRemove(r)
    \/ GeminiFetch(r)
    \/ GeminiJson(r)
    \/ CleanupPathExists(r)
    \/ CleanupRemove(r)

\* The steps that wait for nothing outside: the handler is called, or the
\* await of a promise of the program's own gets its value.
Continues(r) ==
    \/ ReceiveRequest(r)
    \/ HandlerSaved(r)
    \/ TranscribeAudio(r)
    \/ HTTPConverted(r)
    \/ HTTPReturned(r)
    \/ SimpleReturned(r)
    \/ SDKConverted(r)
    \/ HuggingFaceReturned(r)
    \/ HandlerTranscribed(r)
    \/ AudioDecoded(r)
    \/ AudioPaced(r)
    \/ HandlerAnalyzed(r)
    \/ Respond(r)
    \/ HandlerCleaned(r)

RequestNext ==
    \E r \in RequestIds :
        \/ ReceiveRequest(r)
        \/ SaveEnsureDir(r)
        \/ SaveWriteFile(r)
        \/ HandlerSaved(r)
        \/ TranscribeAudio(r)
        \/ ConvertToWav(r)
        \/ TryHTTP(r)
        \/ TrySimple(r)
        \/ TrySDK(r)
        \/ HuggingFaceReturned(r)
        \/ HandlerTranscribed(r)
        \/ AudioDecoded(r)
        \/ AudioPaced(r)
        \/ HandlerAnalyzed(r)
        \/ GeminiFetch(r)
        \/ GeminiJson(r)
        \/ Respond(r)
        \/ CleanupPathExists(r)
        \/ CleanupRemove(r)
        \/ HandlerCleaned(r)

SpecRequest == RequestInit /\ [][RequestNext]_vars

\* Node runs every continuation that is ready: a step that waits for
\* nothing outside is taken.  Nothing is assumed of the calls to the
\* outside: the code sets no timeout on them, and one that never settles
\* leaves its request waiting.
SpecRequestLive ==
    SpecRequest
        /\ \A r \in {1, 2} : WF_vars(r \in RequestIds /\ Continues(r))


(***************************************************************************)
(* Claims about the handler, the transcription and the content analysis.   *)
(***************************************************************************)
Handled(r) == server.requests[r].entry = "handler"

\* The awaits of a call to the outside.
OutsideCalls ==
    {"saveEnsureDir", "saveWriteFile", "convertEnsureDir", "convertWriteFile",
     "ffmpeg", "convertReadFile", "convertRemoveInput", "convertRemoveOutput",
     "httpFetch", "httpText", "httpJson", "simpleFetch", "simpleText",
     "simpleJson", "sdkEnsureDir", "sdkWriteFile", "sdkCall", "sdkPathExists",
     "sdkRemove", "geminiFetch", "geminiJson", "cleanupPathExists",
     "cleanupRemove"}

\* What C23 says of the responses to a request.
AnsweredAsClaimed(req) ==
    /\ Len(req.responses) = 1
    /\ ~req.file => req.responses[1].status = 400
    /\ (req.file /\ ~req.caughtError) =>
          (req.responses[1].status = 200 /\ req.responses[1].success)
    /\ req.caughtError =>
          (req.responses[1].status >= 400 /\ ~req.responses[1].success)

\* C23 (as claimed): every request whose calls to the outside settle is
\* eventually answered, and answered exactly once: with 400 when no file is
\* attached, with the success body and its overallScore when the pipeline
\* completes, and with an error response when a step of the pipeline
\* fails.  A request that waits for the outside for ever is not counted
\* against the claim.
C23_AsClaimed ==
    <>[](\A r \in RequestIds :
            Handled(r) =>
                \/ server.requests[r].pc \in OutsideCalls
                \/ AnsweredAsClaimed(server.requests[r]))

\* The handler of a request is in its finally block or behind it.
Finishing(req) ==
    req.pc \in {"cleanupPathExists", "cleanupRemove", "awaitCleanup", "done"}

\* C24: cleanupTempFile is called exactly once on the path that
\* saveTemporaryAudioFile returned, in the finally block and so whether the
\* later steps succeeded or threw, and it has returned when the handler
\* ends; without a file or when saving failed tempFilePath stays null and
\* cleanupTempFile is not called; and no call of cleanupTempFile throws.
\* This holds with a second request in flight, also one whose temporary
\* file has the same name.
C24_CleanupOnce ==
    \A r \in RequestIds :
        LET req == server.requests[r]
        IN  Handled(r) =>
               /\ Len(req.cleanups) <= 1
               /\ \A k \in 1..Len(req.cleanups) :
                     /\ ~req.cleanups[k].threw
                     /\ req.cleanups[k].filePath = req.tempFilePath
                     /\ req.tempFilePath \in {AudioPath(now) : now \in Instants}
                     /\ req.pc \in {"awaitCleanup", "done"} <=>
                           req.cleanups[k].returned
               /\ Finishing(req) =>
                     (Len(req.cleanups) = 1 <=> req.tempFilePath # None)
               /\ ~Finishing(req) => req.cleanups = <<>>
               /\ (\/ ~req.file
                   \/ req.pc \in {"received", "saveEnsureDir", "saveWriteFile"}
                   \/ (req.pc = "awaitSave" /\ req.pending.threw)) =>
                     req.tempFilePath = None

\* A later step threw in one request, its file was cleaned up once while a
\* second request with a file of the same name was in flight.
C24_Witness ==
    \E r \in RequestIds :
        \E q \in RequestIds \ {r} :
            /\ Handled(r)
            /\ server.requests[r].pc = "done"
            /\ server.requests[r].caughtError
            /\ Len(server.requests[r].cleanups) = 1
            /\ server.requests[r].cleanups[1].returned
            /\ server.requests[q].tempFilePath = server.requests[r].tempFilePath
            /\ server.requests[q].pc # "done"

\* C25 (as claimed): a call of transcribeAudio that resolves, resolves to a
\* string, also when the chosen method fails or the method is unknown.
C25_AsClaimed ==
    \A r \in RequestIds :
        server.requests[r].pc = "transcribed" =>
            server.requests[r].transcription.value.type = "string"

\* The methods in the order the code tries them.
MethodOrder == <<"http", "simple", "sdk">>

\* Another request's SDK method holds a file of this name.
HeldByAnother(r, filePath) ==
    \E q \in RequestIds \ {r} :
        /\ server.requests[q].hfTempFilePath = filePath
        /\ server.requests[q].pc \in {"sdkCall", "sdkPathExists", "sdkRemove"}

\* C26 (as claimed): transcribeWithHuggingFace tries HTTP, simple and SDK in
\* this order, each only after the one before failed; it returns the text
\* of the first that succeeds and rejects only when all three failed; and
\* the SDK method's temporary file is gone when it returns.
C26_AsClaimed ==
    \A r \in RequestIds :
        server.requests[r].pc = "awaitHuggingFace" =>
            LET req == server.requests[r]
                n == Len(req.attempts)
                last == req.attempts[n]
            IN  /\ n \in 1..3
                /\ \A k \in 1..n : req.attempts[k].method = MethodOrder[k]
                /\ \A k \in 1..(n - 1) : req.attempts[k].failed
                /\ req.huggingFace.threw <=> last.failed
                /\ req.huggingFace.threw => n = 3
                /\ ~req.huggingFace.threw => req.huggingFace.value = last.text
                /\ req.hfTempFilePath # None =>
                      \/ req.hfTempFilePath \notin server.files
                      \/ HeldByAnother(r, req.hfTempFilePath)

\* The three scores of a content analysis.
EngagementScores(contentAnalysis) ==
    {contentAnalysis.storytelling.score, contentAnalysis.audienceConnection.score,
     contentAnalysis.persuasiveness.score}

\* C27 (as claimed): for a string transcription analyzeWithGemini never
\* rejects; without a key it resolves to the fallback analysis; and the
\* three scores of what it resolves to are numbers from 1 to 5, whatever
\* Gemini's side does.
C27_AsClaimed ==
    \A r \in RequestIds :
        server.requests[r].pc = "awaitGemini" =>
            LET req == server.requests[r]
            IN  /\ ~req.pending.threw
                /\ ~server.env.GEMINI_API_KEY =>
                      req.pending = getFallbackAnalysis(req.transcription.value)
                /\ \A score \in EngagementScores(req.pending.value) :
                      ~score.nan /\ score.value >= 10 /\ score.value <= 50

\* deliveryAvg + engagementAvg of a request, times 150.
AverageSum(req) ==
    LET m == req.audioMetrics
        c == req.contentAnalysis
    IN  3 * (m.pace + m.tonalVariation + m.clarity + m.confidence
             + m.enthusiasm)
        + 5 * (c.storytelling.score.value + c.audienceConnection.score.value
               + c.persuasiveness.score.value)

\* C28 (as claimed): the overallScore of every success response is an
\* integer from 2 to 10, the rounding of deliveryAvg + engagementAvg.
C28_AsClaimed ==
    \A r \in RequestIds :
        \A k \in 1..Len(server.requests[r].responses) :
            server.requests[r].responses[k].status = 200 =>
                LET overallScore == server.requests[r].responses[k].overallScore
                    sum == AverageSum(server.requests[r])
                IN  /\ ~overallScore.nan
                    /\ overallScore.value \in 2..10
                    /\ 150 * overallScore.value - 75 <= sum
                    /\ sum <= 150 * overallScore.value + 75

\* Two runs on the same transcription that were answered with success and
\* whose primary scores differ in pauseDuration alone.
PauseRuns(first, second) ==
    /\ Succeeded(first)
    /\ Succeeded(second)
    /\ first.transcription = second.transcription
    /\ first.audioMetrics.pace = second.audioMetrics.pace
    /\ first.audioMetrics.volume = second.audioMetrics.volume
    /\ first.audioMetrics.clarity = second.audioMetrics.clarity
    /\ first.audioMetrics.tonalVariation = second.audioMetrics.tonalVariation
    /\ first.audioMetrics.pauseDuration # second.audioMetrics.pauseDuration

\* C30 (as claimed): pauseDuration has no influence on the derived scores
\* or on the overall score: two runs whose primary scores differ in
\* pauseDuration alone have the same confidence, the same enthusiasm and
\* the same overallScore.
C30_AsClaimed ==
    \A first \in RequestIds :
        \A second \in RequestIds :
            PauseRuns(server.requests[first], server.requests[second]) =>
                LET a == server.requests[first]
                    b == server.requests[second]
                IN  /\ a.audioMetrics.confidence = b.audioMetrics.confidence
                    /\ a.audioMetrics.enthusiasm = b.audioMetrics.enthusiasm
                    /\ a.responses[1].overallScore = b.responses[1].overallScore

\* C30 (amended): pauseDuration has no influence on the derived scores, and
\* it reaches the overall score by one way only, the prompt sent to Gemini.
\* Two runs whose primary scores differ in pauseDuration alone have the
\* same confidence and the same enthusiasm, and the prompts they send
\* differ in the line of the pause usage alone; their overallScore is the
\* same whenever the content analyses are the same, which they are when
\* no Gemini key is configured.
C30_PauseOnlyThroughPrompt ==
    \A first \in RequestIds :
        \A second \in RequestIds :
            PauseRuns(server.requests[first], server.requests[second]) =>
                LET a == server.requests[first]
                    b == server.requests[second]
                IN  /\ a.audioMetrics.confidence = b.audioMetrics.confidence
                    /\ a.audioMetrics.enthusiasm = b.audioMetrics.enthusiasm
                    /\ server.env.GEMINI_API_KEY =>
                          /\ a.prompt # b.prompt
                          /\ [a.prompt EXCEPT
                                 !.pauseUsage = b.prompt.pauseUsage] = b.prompt
                    /\ ~server.env.GEMINI_API_KEY =>
                          a.contentAnalysis = b.contentAnalysis
                    /\ a.contentAnalysis = b.contentAnalysis =>
                          a.responses[1].overallScore
                              = b.responses[1].overallScore

\* Two runs with pauseDuration 2 and 5 sent different prompts to Gemini,
\* got the same content analysis and were answered with the same overall
\* score, a number.
C30_Witness ==
    /\ ~Alone
    /\ PauseRuns(server.requests[1], server.requests[2])
    /\ server.requests[1].audioMetrics.pauseDuration = 20
    /\ server.requests[2].audioMetrics.pauseDuration = 50
    /\ server.requests[1].prompt # server.requests[2].prompt
    /\ server.requests[1].contentAnalysis = server.requests[2].contentAnalysis
    /\ ~server.requests[1].responses[1].overallScore.nan
    /\ server.requests[1].responses[1].overallScore
           = server.requests[2].responses[1].overallScore


(***************************************************************************)
(* AudioStorage (audioStorage.ts, lines 10-117): the object store          *)
(* 'audioRecords' keyed by id, and calls of saveAudio, updateAudio and     *)
(* deleteAudio in flight.  Each IndexedDB request runs in a transaction of *)
(* its own and is one step; a call's steps interleave with the steps of    *)
(* the other calls at its awaits.  A record holds, beside updated (whether *)
(* an update was merged into it), the operation whose request created it.  *)
(***************************************************************************)
MaxCalls == 3

RecordIds == {"1", "2"}

NoRecord == [present |-> FALSE, updated |-> FALSE, createdBy |-> None]

\* The calls made: saveAudio takes its id from Date.now() when it runs.
StoreCalls ==
    {[op |-> "saveAudio", id |-> None]}
        \cup [op : {"updateAudio", "deleteAudio"}, id : RecordIds]

NewCall(call) ==
    [op |-> call.op, id |-> call.id, pc |-> "start", existing |-> NoRecord,
     outcome |-> Return(None)]

StoreInit ==
    /\ pc = "store"
    /\ audioBuffer = None
    /\ result = None
    /\ caught = {}
    /\ samples = <<>>
    /\ detector = None
    /\ i = 0
    /\ inSpeech = FALSE
    /\ segmentStart = 0
    /\ inSilence = FALSE
    /\ silenceStart = 0
    /\ segments = <<>>
    /\ inputData = None
    /\ inputMetrics = None
    /\ pitchValues = <<>>
    /\ windows = <<>>
    /\ callee = None
    /\ server = None
    /\ \E made \in [1..MaxCalls -> StoreCalls] :
          store = [records |-> [id \in RecordIds |-> NoRecord],
                   calls |-> [k \in 1..MaxCalls |-> NewCall(made[k])]]

StoreStep(next) ==
    /\ store' = next
    /\ UNCHANGED <<pc, audioBuffer, result, caught, server>>
    /\ UNCHANGED detectorVars
    /\ UNCHANGED scoreVars

\* saveAudio, lines 35-43: id = Date.now().toString().
SaveAudioStart(k) ==
    /\ store.calls[k].op = "saveAudio"
    /\ store.calls[k].pc = "start"
    /\ \E id \in RecordIds :
          StoreStep([store EXCEPT !.calls[k].id = id, !.calls[k].pc = "add"])

\* saveAudio, lines 45-52: store.add(audioRecord) fails when the key exists.
SaveAudioAdd(k) ==
    /\ store.calls[k].op = "saveAudio"
    /\ store.calls[k].pc = "add"
    /\ LET id == store.calls[k].id
       IN  IF store.records[id].present
           THEN StoreStep([store EXCEPT
                    !.calls[k].pc = "done",
                    !.calls[k].outcome = Throw("ConstraintError")])
           ELSE StoreStep([store EXCEPT
                    !.calls[k].pc = "done",
                    !.calls[k].outcome = Return(id),
                    !.records[id] = [present |-> TRUE, updated |-> FALSE,
                                     createdBy |-> "saveAudio"]])

\* updateAudio, lines 83-86: existing = await this.getAudio(id) and the
\* check of it.
UpdateAudioGet(k) ==
    /\ store.calls[k].op = "updateAudio"
    /\ store.calls[k].pc = "start"
    /\ LET existing == store.records[store.calls[k].id]
       IN  IF ~existing.present
           THEN StoreStep([store EXCEPT
                    !.calls[k].pc = "done",
                    !.calls[k].outcome = Throw("Audio record not found")])
           ELSE StoreStep([store EXCEPT !.calls[k].pc = "put",
                                        !.calls[k].existing = existing])

\* updateAudio, lines 88-97: store.put({...existing, ...updates}) replaces
\* the record of that key or creates it.
UpdateAudioPut(k) ==
    /\ store.calls[k].op = "updateAudio"
    /\ store.calls[k].pc = "put"
    /\ LET id == store.calls[k].id
           updated == [store.calls[k].existing EXCEPT !.updated = TRUE]
       IN  StoreStep([store EXCEPT
               !.calls[k].pc = "done",
               !.records[id] =
                   IF store.records[id].present
                   THEN [updated EXCEPT
                            !.createdBy = store.records[id].createdBy]
                   ELSE [updated EXCEPT !.createdBy = "updateAudio"]])

\* deleteAudio, lines 101-112: store.delete(id).
DeleteAudio(k) ==
    /\ store.calls[k].op = "deleteAudio"
    /\ store.calls[k].pc = "start"
    /\ StoreStep([store EXCEPT !.calls[k].pc = "done",
                               !.records[store.calls[k].id] = NoRecord])

StoreNext ==
    \E k \in 1..MaxCalls :
        \/ SaveAudioStart(k)
        \/ SaveAudioAdd(k)
        \/ UpdateAudioGet(k)
        \/ UpdateAudioPut(k)
        \/ DeleteAudio(k)

SpecStore == StoreInit /\ [][StoreNext]_vars

\* C29 (as claimed): updateAudio never creates a record: every record of
\* the store was added by saveAudio, so that after a deleteAudio(id) there
\* is no record with that id until a saveAudio adds one; and an updateAudio
\* that found no record failed with 'Audio record not found'.
C29_AsClaimed ==
    /\ \A id \in RecordIds :
          store.records[id].present =>
              store.records[id].createdBy = "saveAudio"
    /\ \A k \in 1..MaxCalls :
          (store.calls[k].op = "updateAudio" /\ store.calls[k].pc = "done"
           /\ ~store.calls[k].existing.present) =>
              (store.calls[k].outcome.threw
               /\ store.calls[k].outcome.value = "Audio record not found")

====
